---- MODULE Spec2Model ----
(***************************************************************************)
(* A model of the conversion engine of typutil (assign.go, validator.go).  *)
(*                                                                         *)
(* Part A (SpecCache): getAssignFunc / newAssignFunc as a call-stack       *)
(* machine run by several threads over the shared procedure cache.         *)
(* Part B (SpecStruct): the procedure of a struct conversion, field by     *)
(* field, followed by the struct validator; Validate.                      *)
(* Part C (SpecNum): Assign between integer types.                         *)
(* Part D (SpecSlice): slice conversion. Part E (SpecEntry): the entry     *)
(* points Assign and As. Part F (SpecBind): field binding by name and json *)
(* tag. Part G (SpecBytes): []byte and base64 strings. Part H (SpecToMap): *)
(* struct to map. Part I (SpecReg): the validator registry and its lock.   *)
(***************************************************************************)
EXTENDS Integers, Sequences, FiniteSets, TLC

\* ------------------------------------------------------------------ bounds
NThreads == 2
MaxOps == 2
MaxDepth == 9

Threads == 1..NThreads

\* ------------------------------------------------------- the type universe
\* type S struct{ Next *S }      type D struct{ Next *D }
\* type TA struct{ Children []TA }  type TB struct{ Children []TB }
\* PS = *S, PD = *D, LTA = []TA, LTB = []TB, LD = []D, LI = []int,
\* PStr = *string, PInt = *int, any = interface{}
Types == {"int", "S", "D", "PS", "PD", "TA", "TB", "LTA", "LTB", "LD", "LI",
          "string", "PStr", "PInt", "any"}

Kind(t) ==
  CASE t = "int" -> "int"
    [] t = "string" -> "string"
    [] t = "any" -> "iface"
    [] t \in {"S", "D", "TA", "TB"} -> "struct"
    [] t \in {"PS", "PD", "PStr", "PInt"} -> "ptr"
    [] OTHER -> "slice"

Elem(t) ==
  CASE t = "PS" -> "S"
    [] t = "PD" -> "D"
    [] t = "LTA" -> "TA"
    [] t = "LTB" -> "TB"
    [] t = "LD" -> "D"
    [] t = "LI" -> "int"
    [] t = "PStr" -> "string"
    [] t = "PInt" -> "int"
    [] OTHER -> "int"

\* exported fields of a struct type, in declaration order
Fields(t) ==
  CASE t = "S" -> << [name |-> "Next", type |-> "PS"] >>
    [] t = "D" -> << [name |-> "Next", type |-> "PD"] >>
    [] t = "TA" -> << [name |-> "Children", type |-> "LTA"] >>
    [] t = "TB" -> << [name |-> "Children", type |-> "LTB"] >>
    [] OTHER -> << >>

ptrCount(t) == IF Kind(t) = "ptr" THEN 1 ELSE 0

\* every type implements interface{}
AssignableTo(s, d) == s = d \/ d = "any"

\* the type pairs <<dst, src>> the callers ask for
TopPairs == { <<"PD", "S">>, <<"TB", "TA">>, <<"D", "int">>, <<"LD", "LI">> }

Pairs == Types \X Types

\* --------------------------------------------------------------- procedures
NoCall == <<0, 0>>
NoEntry == [k |-> "none", d |-> "-", s |-> "-", by |-> NoCall, phs |-> {}]
NilProc == [k |-> "nil", d |-> "-", s |-> "-", by |-> NoCall, phs |-> {}]
simpleSet == [k |-> "simple", d |-> "-", s |-> "-", by |-> NoCall, phs |-> {}]
\* the closure of assign.go:59-65; it refers to the wg, f and err of call c
Placeholder(c, d, s) == [k |-> "ph", d |-> d, s |-> s, by |-> c, phs |-> {}]
\* a synthesized closure for <<d, s>>, built under getAssignFunc call `by',
\* that holds the placeholders of the calls in phs among its sub-procedures
Conv(d, s, by, phs) == [k |-> "conv", d |-> d, s |-> s, by |-> by, phs |-> phs]

\* placeholders a procedure value brings into a closure that captures it
PhsOf(p) == IF p.k = "ph" THEN {p.by} ELSE p.phs

\* part A: the procedure cache and its callers; part B: conv, one struct
\* conversion (or Validate call); part C: num, one Assign between integers
\* part D: sl, a destination slice variable assigned to repeatedly; part E:
\* ep, one call of an entry point; part F: fb, one binding of struct fields;
\* part G: bs, a byte sequence taken through a string and back
\* part H: tm, one struct-to-map conversion; part I: vr, the validator
\* registry and the goroutines that use it
VARIABLES cache, calls, stack, ret, th, nops, vlock, crashed, nilcall,
          conv, num, sl, ep, fb, bs, tm, vr

vars == <<cache, calls, stack, ret, th, nops, vlock, crashed, nilcall,
          conv, num, sl, ep, fb, bs, tm, vr>>

\* the variables of part A
cacheVars == <<cache, calls, stack, ret, th, nops, vlock, crashed, nilcall>>

NoConv == [mode |-> "none"]
NoNum == [pc |-> "none"]
NoSl == [pc |-> "none"]
NoEp == [pc |-> "none"]
NoFb == [pc |-> "none"]
NoBs == [pc |-> "none"]
NoTm == [pc |-> "none"]
NoVr == [pc |-> "none"]

\* the variables of the parts that are not running
restOfCache == <<conv, num, sl, ep, fb, bs, tm, vr>>
restOfStruct == <<num, sl, ep, fb, bs, tm, vr>>
restOfNum == <<conv, sl, ep, fb, bs, tm, vr>>

\* ------------------------------------------------------------------ frames
GetFrame(d, s) ==
  [fn |-> "get", d |-> d, s |-> s, pc |-> "load", i |-> 0, acc |-> {},
   call |-> NoCall, won |-> FALSE, overl |-> {}]
NewFrame(d, s) ==
  [fn |-> "new", d |-> d, s |-> s, pc |-> "entry", i |-> 0, acc |-> {},
   call |-> NoCall, won |-> FALSE, overl |-> {}]

Top(t) == stack[t][Len(stack[t])]
Pop(stk) == SubSeq(stk, 1, Len(stk) - 1)
SetTop(stk, f) == [stk EXCEPT ![Len(stk)] = f]

\* the getAssignFunc call under which the frames above it synthesize
RECURSIVE EnclosingCall(_)
EnclosingCall(stk) ==
  IF stk = << >> THEN NoCall
  ELSE IF stk[Len(stk)].fn = "get" /\ stk[Len(stk)].won THEN stk[Len(stk)].call
  ELSE EnclosingCall(Pop(stk))

\* what a call returned: (procedure, error), and which call returned it
OkRet(p) == [err |-> "nil", proc |-> p, fn |-> "-", d |-> "-", s |-> "-"]
ErrRet(e) == [err |-> e, proc |-> NilProc, fn |-> "-", d |-> "-", s |-> "-"]
NoRet == [err |-> "nil", proc |-> NilProc, fn |-> "-", d |-> "-", s |-> "-"]

IdleThread ==
  [pc |-> "idle", ncalls |-> 0, pair |-> <<"-", "-">>,
   outcome |-> "none", todo |-> {}, seen |-> {}, cur |-> NoCall]

InitCache ==
  /\ cache = [p \in {} |-> NoEntry]
  /\ calls = [c \in {} |-> NoRet]
  /\ stack = [t \in Threads |-> << >>]
  /\ ret = [t \in Threads |-> NoRet]
  /\ th = [t \in Threads |-> IdleThread]
  /\ nops = 0
  /\ vlock = 0
  /\ crashed = FALSE
  /\ nilcall = FALSE
  /\ conv = NoConv
  /\ num = NoNum
  /\ sl = NoSl /\ ep = NoEp /\ fb = NoFb /\ bs = NoBs
  /\ tm = NoTm /\ vr = NoVr

\* ----------------------------------------------------- sync.Map, WaitGroup
LoadOrStoreStores_Always(p) == TRUE
\* sync.Map.LoadOrStore stores (and reports loaded = false) iff no entry
LoadOrStoreStores(p) == p \notin DOMAIN cache
\* sync.Map.Load: the entry, or NoEntry when there is none
Load(p) == IF p \in DOMAIN cache THEN cache[p] ELSE NoEntry
CacheStore(p, f) == (p :> f) @@ cache
CacheDelete_Clear(p) == [q \in {} |-> NoEntry]
CacheDelete_Keep(p) == cache
CacheDelete(p) == [q \in DOMAIN cache \ {p} |-> cache[q]]
WaitReturns_NoWait(c) == TRUE
\* wg.Wait() of the placeholder of call c returns once c has done wg.Done()
WaitReturns(c) == calls[c].wg = 0
PlaceholderErr_Ignored(c) == "nil"
\* assign.go:61: the err the placeholder of call c reads after the wait
PlaceholderErr(c) == calls[c].err

\* --------------------------------------------------- newAssignFunc dispatch
Strategy(d, s) ==
  IF AssignableTo(s, d) THEN "simpleSet"
  ELSE IF ptrCount(s) > ptrCount(d) THEN "ptrReadAndAssign"
  ELSE IF ptrCount(d) > 0 THEN "newNewAndAssign"
  ELSE CASE Kind(d) = "string" -> "makeAssignToString"
         [] Kind(d) = "int" -> "makeAssignToInt"
         [] Kind(d) = "slice" ->
              IF Kind(s) = "slice" THEN "makeAssignToSlice" ELSE "impossible"
         [] Kind(d) = "struct" ->
              IF Kind(s) = "struct" THEN "makeAssignStructToStruct"
              ELSE "impossible"
         [] OTHER -> "impossible"

\* index of the source field bound to destination field i (0: none)
MatchIdx(d, s, i) ==
  LET js == {j \in 1..Len(Fields(s)) : Fields(s)[j].name = Fields(d)[i].name}
  IN IF js = {} THEN 0 ELSE CHOOSE j \in js : TRUE

Overflow(t) == Len(stack[t]) >= MaxDepth

\* a getAssignFunc call of another thread for pair p that has not yet run
\* LoadOrStore learns that call c synthesized p while it was in progress
Mark(stk, p, c) ==
  [n \in 1..Len(stk) |->
     IF stk[n].fn = "get" /\ <<stk[n].d, stk[n].s>> = p /\ ~stk[n].won
     THEN [stk[n] EXCEPT !.overl = @ \cup {c}] ELSE stk[n]]

Return(t, r) ==
  /\ stack' = [stack EXCEPT ![t] = Pop(@)]
  /\ ret' = [ret EXCEPT ![t] =
               [r EXCEPT !.fn = Top(t).fn, !.d = Top(t).d, !.s = Top(t).s]]

Call(t, parent, child) ==
  /\ ~Overflow(t)
  /\ stack' = [stack EXCEPT ![t] = Append(SetTop(@, parent), child)]

\* ----------------------------------------------------------- getAssignFunc
\* assign.go:41-48
GetLoad(t) ==
  /\ ~crashed /\ stack[t] # << >>
  /\ Top(t).fn = "get" /\ Top(t).pc = "load"
  /\ LET f == Top(t) IN
       IF f.d = f.s THEN Return(t, OkRet(simpleSet))
       ELSE IF Load(<<f.d, f.s>>) # NoEntry
            THEN Return(t, OkRet(Load(<<f.d, f.s>>)))
            ELSE /\ stack' = [stack EXCEPT ![t] = SetTop(@, [f EXCEPT !.pc = "los"])]
                 /\ ret' = ret
  /\ UNCHANGED <<restOfCache, nops, cache, calls, th, vlock, crashed, nilcall>>

\* assign.go:51-71: wg.Add(1), LoadOrStore of the placeholder, and either the
\* return of the loaded entry or the call of newAssignFunc
GetLoadOrStore(t) ==
  /\ ~crashed /\ stack[t] # << >>
  /\ Top(t).fn = "get" /\ Top(t).pc = "los"
  /\ LET f == Top(t)
         p == <<f.d, f.s>>
         c == <<t, th[t].ncalls + 1>>
     IN IF LoadOrStoreStores(p)
        THEN /\ ~Overflow(t)
             /\ calls' = (c :> [wg |-> 1, f |-> NilProc, err |-> "nil"]) @@ calls
             /\ cache' = CacheStore(p, Placeholder(c, f.d, f.s))
             /\ th' = [th EXCEPT ![t].ncalls = @ + 1]
             /\ stack' = [u \in Threads |->
                   IF u = t
                   THEN Append(SetTop(stack[t],
                          [f EXCEPT !.pc = "ret", !.call = c, !.won = TRUE]),
                          NewFrame(f.d, f.s))
                   ELSE Mark(stack[u], p, c)]
             /\ ret' = ret
        ELSE /\ Return(t, OkRet(Load(p)))
             /\ UNCHANGED <<nops, calls, cache, th>>
  /\ UNCHANGED <<restOfCache, nops, vlock, crashed, nilcall>>

\* assign.go:71-76: f, err = newAssignFunc(...); Delete on error, else Store
GetPublish(t) ==
  /\ ~crashed /\ stack[t] # << >>
  /\ Top(t).fn = "get" /\ Top(t).pc = "ret"
  /\ LET f == Top(t)
         p == <<f.d, f.s>>
     IN /\ calls' = [calls EXCEPT ![f.call].f = ret[t].proc,
                                  ![f.call].err = ret[t].err]
        /\ cache' = IF ret[t].err # "nil" THEN CacheDelete(p)
                    ELSE CacheStore(p, ret[t].proc)
        /\ stack' = [stack EXCEPT ![t] = SetTop(@, [f EXCEPT !.pc = "done"])]
  /\ UNCHANGED <<restOfCache, nops, ret, th, vlock, crashed, nilcall>>

\* assign.go:57,74,77: the deferred wg.Done() and the return
GetReturn(t) ==
  /\ ~crashed /\ stack[t] # << >>
  /\ Top(t).fn = "get" /\ Top(t).pc = "done"
  /\ calls' = [calls EXCEPT ![Top(t).call].wg = 0]
  /\ Return(t, ret[t])
  /\ UNCHANGED <<restOfCache, nops, cache, th, vlock, crashed, nilcall>>

\* ----------------------------------------------------------- newAssignFunc
\* assign.go:228-281, and the first call made by the strategy chosen
NewEntry(t) ==
  /\ ~crashed /\ stack[t] # << >>
  /\ Top(t).fn = "new" /\ Top(t).pc = "entry"
  /\ LET f == Top(t)
         st == Strategy(f.d, f.s)
     IN CASE st = "simpleSet" -> Return(t, OkRet(simpleSet))
          [] st \in {"makeAssignToInt", "makeAssignToString"} ->
               Return(t, OkRet(Conv(f.d, f.s, EnclosingCall(stack[t]), {})))
          [] st = "impossible" -> Return(t, ErrRet("ErrAssignImpossible"))
          [] st = "ptrReadAndAssign" ->
               /\ Call(t, [f EXCEPT !.pc = "wrap"], NewFrame(f.d, Elem(f.s)))
               /\ ret' = ret
          [] st = "newNewAndAssign" ->
               /\ Call(t, [f EXCEPT !.pc = "wrap"], NewFrame(Elem(f.d), f.s))
               /\ ret' = ret
          [] st = "makeAssignToSlice" ->
               /\ Call(t, [f EXCEPT !.pc = "wrap"], GetFrame(Elem(f.d), Elem(f.s)))
               /\ ret' = ret
          [] st = "makeAssignStructToStruct" ->
               /\ stack' = [stack EXCEPT ![t] =
                    SetTop(@, [f EXCEPT !.pc = "fields", !.i = 1])]
               /\ ret' = ret
  /\ UNCHANGED <<restOfCache, nops, cache, calls, th, vlock, crashed, nilcall>>

\* assign.go:440-451, 456-467, 508-527: the sub-procedure came back
NewWrap(t) ==
  /\ ~crashed /\ stack[t] # << >>
  /\ Top(t).fn = "new" /\ Top(t).pc = "wrap"
  /\ LET f == Top(t) IN
       IF ret[t].err # "nil" THEN Return(t, ErrRet(ret[t].err))
       ELSE Return(t, OkRet(Conv(f.d, f.s, EnclosingCall(stack[t]),
                                 PhsOf(ret[t].proc))))
  /\ UNCHANGED <<restOfCache, nops, cache, calls, th, vlock, crashed, nilcall>>

\* assign.go:321-353: the loop over the destination fields
StructFields(t) ==
  /\ ~crashed /\ stack[t] # << >>
  /\ Top(t).fn = "new" /\ Top(t).pc = "fields"
  /\ LET f == Top(t) IN
       IF f.i > Len(Fields(f.d))
       THEN stack' = [stack EXCEPT ![t] = SetTop(@, [f EXCEPT !.pc = "vlock"])]
       ELSE IF MatchIdx(f.d, f.s, f.i) = 0
       THEN stack' = [stack EXCEPT ![t] = SetTop(@, [f EXCEPT !.i = @ + 1])]
       ELSE Call(t, [f EXCEPT !.pc = "fieldret"],
                 NewFrame(Fields(f.d)[f.i].type,
                          Fields(f.s)[MatchIdx(f.d, f.s, f.i)].type))
  /\ UNCHANGED <<restOfCache, nops, cache, calls, ret, th, vlock, crashed, nilcall>>

\* assign.go:343-352
StructFieldRet(t) ==
  /\ ~crashed /\ stack[t] # << >>
  /\ Top(t).fn = "new" /\ Top(t).pc = "fieldret"
  /\ LET f == Top(t) IN
       IF ret[t].err # "nil" THEN Return(t, ErrRet(ret[t].err))
       ELSE /\ stack' = [stack EXCEPT ![t] = SetTop(@,
                 [f EXCEPT !.pc = "fields", !.i = @ + 1,
                           !.acc = @ \cup PhsOf(ret[t].proc)])]
            /\ ret' = ret
  /\ UNCHANGED <<restOfCache, nops, cache, calls, th, vlock, crashed, nilcall>>

\* assign.go:357, validator.go:172: validatorCacheLk.Lock()
ValidatorLock(t) ==
  /\ ~crashed /\ stack[t] # << >>
  /\ Top(t).fn = "new" /\ Top(t).pc = "vlock"
  /\ vlock = 0
  /\ vlock' = t
  /\ stack' = [stack EXCEPT ![t] = SetTop(@, [Top(t) EXCEPT !.pc = "vunlock"])]
  /\ UNCHANGED <<restOfCache, nops, cache, calls, ret, th, crashed, nilcall>>

\* validator.go:173-198 and assign.go:359-371: Unlock, return the closure
ValidatorUnlock(t) ==
  /\ ~crashed /\ stack[t] # << >>
  /\ Top(t).fn = "new" /\ Top(t).pc = "vunlock"
  /\ vlock' = 0
  /\ Return(t, OkRet(Conv(Top(t).d, Top(t).s, EnclosingCall(stack[t]), Top(t).acc)))
  /\ UNCHANGED <<restOfCache, nops, cache, calls, th, crashed, nilcall>>

\* a call at the stack limit: the Go runtime ends the process
StackOverflow(t) ==
  /\ ~crashed /\ stack[t] # << >> /\ Overflow(t)
  /\ \/ Top(t).fn = "new" /\ Top(t).pc = "entry"
        /\ Strategy(Top(t).d, Top(t).s) \in
             {"ptrReadAndAssign", "newNewAndAssign", "makeAssignToSlice"}
     \/ Top(t).fn = "new" /\ Top(t).pc = "fields"
        /\ Top(t).i <= Len(Fields(Top(t).d))
        /\ MatchIdx(Top(t).d, Top(t).s, Top(t).i) # 0
     \/ Top(t).fn = "get" /\ Top(t).pc = "los"
        /\ LoadOrStoreStores(<<Top(t).d, Top(t).s>>)
  /\ crashed' = TRUE
  /\ UNCHANGED <<restOfCache, nops, cache, calls, stack, ret, th, vlock, nilcall>>

\* ------------------------------------------------------------ entry points
\* assign.go:137, 174: Assign / AssignReflect call getAssignFunc
OpStart(t) ==
  /\ ~crashed /\ th[t].pc = "idle" /\ nops < MaxOps
  /\ \E p \in TopPairs :
       /\ stack' = [stack EXCEPT ![t] = << GetFrame(p[1], p[2]) >>]
       /\ th' = [th EXCEPT ![t].pc = "synth", ![t].pair = p,
                           ![t].outcome = "none", ![t].todo = {},
                           ![t].seen = {}, ![t].cur = NoCall]
  /\ ret' = [ret EXCEPT ![t] = NoRet]
  /\ nops' = nops + 1
  /\ UNCHANGED <<restOfCache, cache, calls, vlock, crashed, nilcall>>

\* assign.go:138-141, 175-178: error, or run the procedure
OpGot(t) ==
  /\ ~crashed /\ th[t].pc = "synth" /\ stack[t] = << >>
  /\ IF ret[t].err # "nil"
     THEN th' = [th EXCEPT ![t].pc = "idle",
                           ![t].outcome = ret[t].err]
     ELSE th' = [th EXCEPT ![t].pc = "exec", ![t].todo = PhsOf(ret[t].proc)]
  /\ UNCHANGED <<restOfCache, nops, cache, calls, stack, ret, vlock, crashed, nilcall>>

\* the running procedure reaches a placeholder it holds and calls it
ExecCall(t) ==
  /\ ~crashed /\ th[t].pc = "exec"
  /\ \E c \in th[t].todo : th' = [th EXCEPT ![t].pc = "wait", ![t].cur = c]
  /\ UNCHANGED <<restOfCache, nops, cache, calls, stack, ret, vlock, crashed, nilcall>>

\* assign.go:60
ExecWake(t) ==
  /\ ~crashed /\ th[t].pc = "wait"
  /\ WaitReturns(th[t].cur)
  /\ th' = [th EXCEPT ![t].pc = "deleg"]
  /\ UNCHANGED <<restOfCache, nops, cache, calls, stack, ret, vlock, crashed, nilcall>>

\* assign.go:61-64; a nil f makes the call panic
ExecDelegate(t) ==
  /\ ~crashed /\ th[t].pc = "deleg"
  /\ LET c == th[t].cur IN
       IF PlaceholderErr(c) # "nil"
       THEN /\ th' = [th EXCEPT ![t].pc = "idle",
                                ![t].outcome = PlaceholderErr(c)]
            /\ nilcall' = nilcall
       ELSE IF calls[c].f = NilProc
       THEN /\ th' = [th EXCEPT ![t].pc = "idle",
                                ![t].outcome = "panic"]
            /\ nilcall' = TRUE
       ELSE /\ th' = [th EXCEPT ![t].pc = "exec",
                        ![t].seen = @ \cup {c},
                        ![t].todo = (@ \ {c}) \cup
                            (PhsOf(calls[c].f) \ (th[t].seen \cup {c}))]
            /\ nilcall' = nilcall
  /\ UNCHANGED <<restOfCache, nops, cache, calls, stack, ret, vlock, crashed>>

\* the procedure has run to its end
ExecDone(t) ==
  /\ ~crashed /\ th[t].pc = "exec" /\ th[t].todo = {}
  /\ th' = [th EXCEPT ![t].pc = "idle", ![t].outcome = "ok"]
  /\ UNCHANGED <<restOfCache, nops, cache, calls, stack, ret, vlock, crashed, nilcall>>

ThreadStep(t) ==
  \/ OpStart(t) \/ GetLoad(t) \/ GetLoadOrStore(t) \/ GetPublish(t)
  \/ GetReturn(t) \/ NewEntry(t) \/ NewWrap(t) \/ StructFields(t)
  \/ StructFieldRet(t) \/ ValidatorLock(t) \/ ValidatorUnlock(t)
  \/ StackOverflow(t) \/ OpGot(t) \/ ExecCall(t) \/ ExecWake(t)
  \/ ExecDelegate(t) \/ ExecDone(t)

NextCache == \E t \in Threads : ThreadStep(t)

SpecCache == InitCache /\ [][NextCache]_vars

\* goroutines are scheduled fairly
FairCache == SpecCache /\ \A t \in Threads : WF_vars(ThreadStep(t))

\* ------------------------------------------------------ properties, part A
GetFrames(t) == {n \in 1..Len(stack[t]) : stack[t][n].fn = "get"}

\* newAssignFunc is a function of the two types and of what getAssignFunc
\* returns: a stack that holds newAssignFunc twice for one pair with nothing
\* but newAssignFunc frames in between repeats itself for ever
SameSynthTwice(stk) ==
  \E i, j \in 1..Len(stk) :
    /\ i < j
    /\ \A k \in i..j : stk[k].fn = "new"
    /\ stk[i].d = stk[j].d /\ stk[i].s = stk[j].s

\* C1: synthesis of the procedure that converts the self-referential struct S
\* into the self-referential struct D (Assign(&d, s), pair <<*D, S>>) returns
\* after finitely many steps: it never re-enters newAssignFunc for a pair it
\* is already synthesizing without the cache in between, and the stack does
\* not overflow.
C1_SelfRefSynthesisTerminates ==
  \A t \in Threads :
    th[t].pair = <<"PD", "S">> => ~SameSynthTwice(stack[t]) /\ ~crashed

\* C2 (as claimed): of the getAssignFunc calls of several threads for one
\* pair that are in progress together, exactly one runs newAssignFunc.
C2_ExactlyOneSynthesis ==
  \A t \in Threads : \A n \in GetFrames(t) :
    stack[t][n].won => stack[t][n].overl = {}

\* C2 (amended): a getAssignFunc call runs newAssignFunc for a pair that a
\* call of another thread synthesized while it was in progress only after
\* that synthesis failed; at any time at most one thread synthesizes a pair,
\* and a call that returns a procedure without synthesizing returns a cache
\* entry: some call's placeholder or its synthesized procedure.
C2_OneSynthesisUnlessFailed ==
  /\ \A t \in Threads : \A n \in GetFrames(t) :
       stack[t][n].won =>
         \A c \in stack[t][n].overl : calls[c].err # "nil" /\ c[1] # t
  /\ \A p \in DOMAIN cache :
       Cardinality({t \in Threads : \E n \in GetFrames(t) :
          /\ stack[t][n].won /\ stack[t][n].pc = "ret"
          /\ <<stack[t][n].d, stack[t][n].s>> = p}) <= 1
  /\ \A t \in Threads :
       (ret[t].fn = "get" /\ ret[t].err = "nil" /\ ret[t].proc.by[1] # t
        /\ ret[t].proc.k \in {"ph", "conv"})
         => /\ ret[t].proc.by \in DOMAIN calls
            /\ ret[t].proc \in {Placeholder(ret[t].proc.by, ret[t].d, ret[t].s),
                                calls[ret[t].proc.by].f}

\* two threads were in getAssignFunc for one pair, the first one's synthesis
\* failed, and the second one is synthesizing the pair again
C2_Witness ==
  \E t \in Threads : \E n \in GetFrames(t) :
    stack[t][n].won /\ stack[t][n].overl # {}

\* C3: a placeholder delegates only after the getAssignFunc call that
\* published it has returned, and then to the synthesized procedure or to
\* the synthesis error; it never calls a nil procedure.
C3_PlaceholderDelegatesAfterSynthesis ==
  /\ ~nilcall
  /\ \A t \in Threads :
       th[t].pc = "deleg" =>
         LET c == th[t].cur IN
           /\ calls[c].wg = 0
           /\ \A u \in Threads : \A n \in GetFrames(u) : stack[u][n].call # c
           /\ \/ calls[c].err # "nil" /\ calls[c].f = NilProc
              \/ calls[c].err = "nil" /\ calls[c].f.k \in {"conv", "simple"}

\* a thread other than the synthesizing one is past the wait of a
\* placeholder and delegates to the synthesized procedure
C3_Witness ==
  \E t \in Threads :
    /\ th[t].pc = "deleg" /\ th[t].cur[1] # t
    /\ calls[th[t].cur].f.k = "conv"

\* C4: every invocation of a placeholder eventually returns.
C4_PlaceholderReturns ==
  \A t \in Threads : (th[t].pc = "wait") ~> (th[t].pc # "wait")

\* the pairs no rule of newAssignFunc applies to
Impossible == {p \in Pairs : Strategy(p[1], p[2]) = "impossible"}

\* C5 (as claimed): every getAssignFunc call for a pair without a strategy
\* returns the ErrAssignImpossible error and no procedure.
C5_ImpossibleAlwaysErrors ==
  \A t \in Threads :
    (ret[t].fn = "get" /\ <<ret[t].d, ret[t].s>> \in Impossible)
      => ret[t].err = "ErrAssignImpossible" /\ ret[t].proc = NilProc

\* C5 (amended): a getAssignFunc call for a pair without a strategy returns
\* either the ErrAssignImpossible error and no procedure, or, when another
\* thread's synthesis of the pair is in flight, that thread's placeholder
\* and no error; a conversion that runs such a placeholder ends with the
\* ErrAssignImpossible error.
C5_ImpossibleErrorsOrPlaceholder ==
  /\ \A t \in Threads :
       (ret[t].fn = "get" /\ <<ret[t].d, ret[t].s>> \in Impossible)
         => \/ ret[t].err = "ErrAssignImpossible" /\ ret[t].proc = NilProc
            \/ /\ ret[t].err = "nil" /\ ret[t].proc.k = "ph"
               /\ ret[t].proc.by[1] # t
               /\ <<ret[t].proc.d, ret[t].proc.s>> = <<ret[t].d, ret[t].s>>
  /\ \A t \in Threads :
       (th[t].pair \in Impossible /\ th[t].pc = "idle"
        /\ th[t].outcome # "none")
         => th[t].outcome = "ErrAssignImpossible"

\* a thread got the placeholder of an impossible pair from getAssignFunc, ran
\* it and ended with the error
C5_Witness ==
  \E t \in Threads :
    /\ th[t].pair \in Impossible /\ th[t].pc = "idle"
    /\ th[t].outcome = "ErrAssignImpossible"
    /\ ret[t].fn = "get" /\ ret[t].proc.k = "ph"

\* C6 (as claimed): a cache entry, once stored, is never replaced or removed.
C6_EntryNeverReplaced ==
  [][\A p \in DOMAIN cache : p \in DOMAIN cache' /\ cache'[p] = cache[p]]_vars

\* C6 (amended): the only cache entry that is ever replaced or removed is a
\* placeholder, by the call that stored it: replaced by the procedure that
\* call synthesized, or removed when its synthesis failed.  A synthesized
\* procedure is never replaced or removed.
C6_OnlyPlaceholderReplaced ==
  [][\A p \in DOMAIN cache :
       (p \notin DOMAIN cache' \/ cache'[p] # cache[p]) =>
         /\ cache[p].k = "ph"
         /\ \E t \in Threads : \E n \in GetFrames(t) :
              stack[t][n].call = cache[p].by /\ stack[t][n].pc = "ret"
         /\ \/ calls'[cache[p].by].err # "nil" /\ p \notin DOMAIN cache'
            \/ /\ calls'[cache[p].by].err = "nil"
               /\ p \in DOMAIN cache'
               /\ cache'[p] = calls'[cache[p].by].f
               /\ cache'[p].k \in {"conv", "simple"}]_vars

\* one pair holds a synthesized procedure while the placeholder of another
\* pair has been stored
C6_Witness ==
  \E p, q \in DOMAIN cache : cache[p].k = "conv" /\ cache[q].k = "ph"

\* ==========================================================================
\* Part B: the procedure of a struct conversion, and Validate
\* ==========================================================================
MaxFields == 2

\* The destination is a struct of MaxFields exported string fields; field i
\* is declared i-th and its declared name is written FieldName(i).
FieldIdx == 1..MaxFields
FieldName(i) == <<"F", i>>

\* a value: a string [str], an int [int], held directly (to = "val") or
\* behind a pointer that is the address of the destination field
\* (to = "field") or of a fresh variable (to = "fresh")
StrV(x) == [str |-> x]
IntV(n) == [int |-> n]
Val(x) == [to |-> "val", v |-> x]
AddrOfField(x) == [to |-> "field", v |-> x]
Fresh(x) == [to |-> "fresh", v |-> x]
Deref(p) == Val(p.v)
\* a nil *string
NilPtr == [to |-> "nil", v |-> StrV("")]

\* strings.ToUpper, len, strconv.ParseInt on the strings of the model
ToUpper(x) == IF x = "ab" THEN "AB" ELSE x
StrLen(x) == CASE x = "" -> 0 [] x = "7" -> 1 [] OTHER -> 2
ParseInt(x) == IF x = "7" THEN [n |-> 7, ok |-> TRUE] ELSE [n |-> 0, ok |-> FALSE]

SrcStrings == {"", "ab", "7"}
DstStrings == {"", "ab"}

\* the registered validators: not_empty and minlength of stdvalidators.go,
\* valb_test of the tests, and three more functions given to SetValidator:
\*   copy_upper  func(s string) error { s = strings.ToUpper(s); return nil }
\*   any_upper   func(v any) error { p := v.(*string); *p = ToUpper(*p); .. }
\*   zero_int    func(p *int) error { *p = 0; return nil }
\* arg is the type of the function's first argument (validatorObject.arg).
\* A name is written with the extra argument of the tag: "minlength=2",
\* and "minlength=x", whose argument is not an int. No validator is
\* registered under "nosuch".
validators ==
  [n \in {"not_empty", "minlength=2", "minlength=x", "valb_test",
          "copy_upper", "any_upper", "zero_int"} |->
     CASE n = "not_empty" -> [arg |-> "any"]
       [] n \in {"minlength=2", "minlength=x"} -> [arg |-> "string"]
       [] n = "valb_test" -> [arg |-> "PStr"]
       [] n = "copy_upper" -> [arg |-> "string"]
       [] n = "any_upper" -> [arg |-> "any"]
       [] OTHER -> [arg |-> "PInt"]]

\* the validator tags a field can carry (the tag, split at the commas)
Tags == { << >>, <<"not_empty">>, <<"minlength=2", "not_empty">>,
          <<"valb_test", "minlength=2">>, <<"copy_upper", "not_empty">>,
          <<"any_upper", "zero_int">>, <<"not_empty", "nosuch">>,
          <<"minlength=x">> }

\* validator.go:272-293: the extra argument handed to validateMinLength.
\* AssignReflect's error is dropped, so an argument that is not an int
\* leaves the parameter at its zero value.
convertArgs(n) == IF n = "minlength=2" THEN 2 ELSE 0

\* fnc.Call of validator n on argument a: the error it returns and the value
\* it stores into its argument variable or through its argument pointer
\* (NoWrite when it stores nothing)
NoWrite == [none |-> TRUE]
Call_fnc(n, a) ==
  CASE n = "not_empty" ->
         [err |-> IF a.v = StrV("") THEN "ErrEmptyValue" ELSE "nil",
          wrote |-> NoWrite]
    [] n \in {"minlength=2", "minlength=x"} ->
         [err |-> IF StrLen(a.v.str) < convertArgs(n)
                  THEN "string must be at least 2 characters" ELSE "nil",
          wrote |-> NoWrite]
    [] n \in {"valb_test", "copy_upper", "any_upper"} ->
         [err |-> "nil", wrote |-> StrV(ToUpper(a.v.str))]
    [] OTHER -> [err |-> "nil", wrote |-> IntV(0)]

\* reflect.Value.Set copies the value; a copied pointer points where the
\* original points
Set_Clone(x) == IF x.to = "field" THEN Fresh(x.v) ELSE x
Set(x) == x

\* The procedure newAssignFunc builds for <<d, s>>, applied to the source
\* value x, for the pairs runReflectValue asks for on a string field:
\* the value the destination holds afterwards, and the error returned.
RECURSIVE ExecAssign(_, _, _)
ExecAssign(d, s, x) ==
  LET st == Strategy(d, s) IN
  CASE st = "simpleSet" -> [err |-> "nil", val |-> Set(x)]
    [] st = "ptrReadAndAssign" ->
         IF x = NilPtr THEN [err |-> "ErrNilPointerRead", val |-> x]
         ELSE ExecAssign(d, Elem(s), Deref(x))
    [] st = "newNewAndAssign" ->
         LET r == ExecAssign(Elem(d), s, x)
         IN IF r.err # "nil" THEN r
            ELSE [err |-> "nil", val |-> Fresh(r.val.v)]
    [] st = "makeAssignToInt" /\ Kind(s) = "string" ->
         LET a == ParseInt(x.v.str)
         IN IF a.ok THEN [err |-> "nil", val |-> Val(IntV(a.n))]
            ELSE [err |-> "failed to convert string to int",
                  val |-> Val(IntV(0))]
    [] OTHER -> [err |-> "ErrAssignImpossible", val |-> x]

\* validator.go:258-270, on the address of a field that holds string x:
\* the error returned, whether fnc was called, what it stored, and the
\* string the field holds afterwards
runReflectValue(n, x) ==
  LET r == ExecAssign(validators[n].arg, "PStr", AddrOfField(StrV(x))) IN
  IF r.err # "nil"
  THEN [err |-> r.err, called |-> FALSE, wrote |-> NoWrite, after |-> x]
  ELSE LET c == Call_fnc(n, r.val)
       IN [err |-> c.err, called |-> TRUE, wrote |-> c.wrote,
           after |-> IF r.val.to = "field" /\ c.wrote # NoWrite
                     THEN c.wrote.str ELSE x]

\* validator.go:127-155: the validators a tag names, or the error of the
\* first name that is not registered
getValidators(tag) ==
  IF \A k \in DOMAIN tag : tag[k] \in DOMAIN validators
  THEN [vals |-> tag, err |-> "nil"]
  ELSE [vals |-> << >>, err |-> "validator not found"]

\* validator.go:171-199: the tagged fields of the struct type, in
\* declaration order (tags: the validator tag of each field); a field
\* whose tag getValidators rejects is skipped
getValidatorForType(tags) ==
  SelectSeq([i \in 1..Len(tags) |->
               [fld |-> i, name |-> FieldName(i),
                vals |-> getValidators(tags[i]).vals,
                err |-> getValidators(tags[i]).err]],
            LAMBDA vd : vd.err = "nil" /\ vd.vals # << >>)

\* errors: validator.go:208 wraps the validator's error with the field name
NoField == <<"-", 0>>
Nil == [field |-> NoField, err |-> "nil"]
OnField_Unwrapped(name, e) == [field |-> NoField, err |-> e]
OnField(name, e) == [field |-> name, err |-> e]

\* ------------------------------------------------- one conversion, as state
\* mode: "struct" (makeAssignStructToStruct), "map" (makeAssignMapToStruct)
\* or "validate" (Validate); tags: the validator tag of each destination
\* field; bound: the destination fields that have a source field / map key;
\* src, dst: the strings the source and destination fields hold;
\* order: the fields written so far, in the order they were written;
\* sv: the structValidator the closure captured; fi, vi: validate's position
NewConv(mode, tags, bound, src, dst) ==
  [mode |-> mode, tags |-> tags, bound |-> bound, src |-> src, dst |-> dst,
   pc |-> "run", todo |-> bound, written |-> {}, order |-> << >>,
   sv |-> getValidatorForType(tags), fi |-> 1, vi |-> 1,
   vlog |-> << >>, result |-> Nil]

\* A source struct field is a string or a *string; the model writes "<nil>"
\* for a *string field that holds nil and the string for a string field.
\* A map's values are strings.
NilSrc == "<nil>"
SrcFieldType(x) == IF x = NilSrc THEN "PStr" ELSE "string"
SrcFieldVal(x) == IF x = NilSrc THEN NilPtr ELSE Val(StrV(x))

\* what one destination field starts from
FieldInputs(mode) ==
  [tag : Tags, bound : {FALSE}, src : {""},
   dst : IF mode = "validate" THEN SrcStrings ELSE DstStrings]
  \cup (IF mode = "validate" THEN {}
        ELSE [tag : Tags, bound : {TRUE},
              src : SrcStrings \cup (IF mode = "struct" THEN {NilSrc} ELSE {}),
              dst : {""}])

ConvOf(mode, f) ==
  NewConv(mode, [i \in FieldIdx |-> f[i].tag], {i \in FieldIdx : f[i].bound},
          [i \in FieldIdx |-> f[i].src], [i \in FieldIdx |-> f[i].dst])

\* a destination is zero where a field is bound, the source holds nothing
\* for an unbound field, and Validate has no source at all
InitStruct ==
  /\ cache = [p \in {} |-> NoEntry]
  /\ calls = [c \in {} |-> NoRet]
  /\ stack = [t \in Threads |-> << >>]
  /\ ret = [t \in Threads |-> NoRet]
  /\ th = [t \in Threads |-> IdleThread]
  /\ nops = 0
  /\ vlock = 0
  /\ crashed = FALSE
  /\ nilcall = FALSE
  /\ num = NoNum
  /\ sl = NoSl /\ ep = NoEp /\ fb = NoFb /\ bs = NoBs
  /\ tm = NoTm /\ vr = NoVr
  /\ \E mode \in {"struct", "map", "validate"} :
       \E f \in [FieldIdx -> FieldInputs(mode)] : conv = ConvOf(mode, f)

Min(S) == CHOOSE x \in S : \A y \in S : x <= y

\* assign.go:360-366, 409-420: validate is called once the loop over the
\* bound fields (or over the map's entries) has ended
ValidateStarts_Early(todo) == TRUE
ValidateStarts(todo) == todo = {}

\* assign.go:362-364, 415-417: f.set returned the error e; the closure
\* returns it and touches nothing else
SetFails_Rollback(c, e) ==
  [c EXCEPT !.pc = "done", !.result = [field |-> NoField, err |-> e],
            !.dst = [i \in FieldIdx |-> IF i \in c.written THEN "" ELSE c.dst[i]]]
SetFails(c, e) ==
  [c EXCEPT !.pc = "done", !.result = [field |-> NoField, err |-> e]]

\* assign.go:360-365 (bound fields in declaration order) and 409-419 (the
\* map's entries in iteration order): f.set(dstf, source value)
SetField(i) ==
  /\ conv.mode \in {"struct", "map"} /\ conv.pc = "run"
  /\ i \in conv.todo
  /\ conv.mode = "struct" => i = Min(conv.todo)
  /\ LET r == ExecAssign("string", SrcFieldType(conv.src[i]),
                         SrcFieldVal(conv.src[i])) IN
       IF r.err # "nil"
       THEN conv' = SetFails(conv, r.err)
       ELSE conv' = [conv EXCEPT !.dst[i] = r.val.v.str,
                                 !.todo = @ \ {i},
                                 !.written = @ \cup {i},
                                 !.order = Append(@, i)]
  /\ UNCHANGED <<cacheVars, restOfStruct>>

\* validator.go:203-210: the next validator of the next tagged field
RunValidator ==
  /\ conv.mode # "none" /\ conv.pc = "run"
  /\ ValidateStarts(conv.todo)
  /\ conv.fi <= Len(conv.sv)
  /\ LET vd == conv.sv[conv.fi]
         n == vd.vals[conv.vi]
         r == runReflectValue(n, conv.dst[vd.fld])
         e == [fld |-> vd.fld, k |-> conv.vi, n |-> n, err |-> r.err,
               called |-> r.called, wrote |-> r.wrote,
               before |-> conv.dst[vd.fld], after |-> r.after,
               written |-> conv.written]
         last == conv.vi = Len(vd.vals)
     IN conv' = [conv EXCEPT
                   !.dst[vd.fld] = r.after,
                   !.vlog = Append(@, e),
                   !.pc = IF r.err # "nil" THEN "done" ELSE @,
                   !.result = IF r.err # "nil" THEN OnField(vd.name, r.err)
                              ELSE @,
                   !.vi = IF last THEN 1 ELSE @ + 1,
                   !.fi = IF last THEN @ + 1 ELSE @]
  /\ UNCHANGED <<cacheVars, restOfStruct>>

\* validator.go:212, assign.go:369: every validator passed
ValidateReturn ==
  /\ conv.mode # "none" /\ conv.pc = "run"
  /\ ValidateStarts(conv.todo)
  /\ conv.fi > Len(conv.sv)
  /\ conv' = [conv EXCEPT !.pc = "done", !.result = Nil]
  /\ UNCHANGED <<cacheVars, restOfStruct>>

NextStruct == (\E i \in FieldIdx : SetField(i)) \/ RunValidator \/ ValidateReturn

SpecStruct == InitStruct /\ [][NextStruct]_vars

\* ------------------------------------------------------ properties, part B
Conversion == conv.mode \in {"struct", "map"}
Tagged ==
  {i \in FieldIdx :
     conv.tags[i] # << >> /\ getValidators(conv.tags[i]).err = "nil"}
Failed == {j \in DOMAIN conv.vlog : conv.vlog[j].err # "nil"}

\* the validators ran in destination field declaration order and, within a
\* field, in the order of its tag, starting at the first tagged field and
\* skipping none
RunsInOrder ==
  LET vlog == conv.vlog IN
  /\ \A j \in DOMAIN vlog :
       /\ vlog[j].fld \in Tagged
       /\ vlog[j].k \in DOMAIN conv.tags[vlog[j].fld]
       /\ vlog[j].n = conv.tags[vlog[j].fld][vlog[j].k]
  /\ vlog # << >> => vlog[1].k = 1 /\ vlog[1].fld = Min(Tagged)
  /\ \A j \in 1..(Len(vlog) - 1) :
       LET a == vlog[j]
           b == vlog[j + 1]
       IN IF a.k < Len(conv.tags[a.fld])
          THEN b.fld = a.fld /\ b.k = a.k + 1
          ELSE /\ b.k = 1 /\ b.fld > a.fld
               /\ \A g \in Tagged : ~(a.fld < g /\ g < b.fld)

C8_OnlyWrittenFieldsValidated ==
  Conversion => \A j \in DOMAIN conv.vlog : conv.vlog[j].fld \in conv.written

\* C8 (amended): the validators run only after every bound field has been
\* written, and a conversion that succeeds has validated every tagged
\* field, bound or not
C8_AllTaggedValidatedAfterWrites ==
  Conversion =>
    /\ \A j \in DOMAIN conv.vlog : conv.vlog[j].written = conv.bound
    /\ (conv.pc = "done" /\ conv.result = Nil) =>
         /\ conv.written = conv.bound
         /\ {conv.vlog[j].fld : j \in DOMAIN conv.vlog} = Tagged
         /\ \A i \in Tagged :
              Cardinality({j \in DOMAIN conv.vlog : conv.vlog[j].fld = i})
                = Len(conv.tags[i])

\* a conversion that wrote a field and validated another one it did not
\* write has succeeded
C8_Witness ==
  /\ Conversion /\ conv.pc = "done" /\ conv.result = Nil
  /\ conv.written # {}
  /\ \E j \in DOMAIN conv.vlog : conv.vlog[j].fld \notin conv.written

PointerArg(n) == Kind(validators[n].arg) = "ptr"
\* the argument types for which the field's address is assignable as it is
FieldAddressArg(n) == validators[n].arg \in {"PStr", "any"}
LastRunOn(i) ==
  LET js == {j \in DOMAIN conv.vlog : conv.vlog[j].fld = i}
  IN CHOOSE j \in js : \A k \in js : k <= j

\* C9 (as stated): what a validator with a pointer argument type writes is
\* the field's value afterwards; any other validator leaves the field alone
C9_PointerArgAliasesField ==
  \A j \in DOMAIN conv.vlog :
    LET e == conv.vlog[j] IN
    e.called =>
      IF PointerArg(e.n)
      THEN e.wrote # NoWrite => StrV(e.after) = e.wrote
      ELSE e.after = e.before

\* C9 (amended): a validator whose argument type is the pointer type of the
\* field, or an interface the field's address satisfies, writes the field;
\* a validator of any other argument type (a pointer to another type
\* included) is given a fresh value and leaves the field alone; the field
\* ends with what the last validator run on it left
C9_FieldAddressArgAliasesField ==
  /\ \A j \in DOMAIN conv.vlog :
       LET e == conv.vlog[j] IN
       IF e.called /\ FieldAddressArg(e.n) /\ e.wrote # NoWrite
       THEN StrV(e.after) = e.wrote
       ELSE e.after = e.before
  /\ \A i \in FieldIdx :
       (\E j \in DOMAIN conv.vlog : conv.vlog[j].fld = i) =>
         conv.dst[i] = conv.vlog[LastRunOn(i)].after

\* valb_test has upper-cased a field, any_upper another, and zero_int has
\* run on its own int
C9_Witness ==
  /\ conv.pc = "done"
  /\ \E j \in DOMAIN conv.vlog :
       LET e == conv.vlog[j] IN
       /\ e.n = "valb_test" /\ e.before = "ab" /\ e.after = "AB"
       /\ conv.dst[e.fld] = "AB"
  /\ \E j \in DOMAIN conv.vlog :
       conv.vlog[j].n = "zero_int" /\ conv.vlog[j].called

\* ==========================================================================
\* Part C: Assign between integer types
\* ==========================================================================
MaxNum == 260

SignedTypes == {"int8", "int16", "int32", "int64"}
UnsignedTypes == {"uint8", "uint16", "uint32"}
IntTypes == SignedTypes \cup UnsignedTypes
Signed(t) == t \in SignedTypes
Bits(t) ==
  CASE t \in {"int8", "uint8"} -> 8
    [] t \in {"int16", "uint16"} -> 16
    [] t \in {"int32", "uint32"} -> 32
    [] OTHER -> 64

NumValues == (0 - MaxNum)..MaxNum

\* v is a value of type t (the values of the model all lie inside the
\* range of the 32 and 64 bit types)
Fits(t, v) ==
  IF Bits(t) >= 32 THEN Signed(t) \/ v >= 0
  ELSE IF Signed(t) THEN 0 - 2^(Bits(t) - 1) <= v /\ v < 2^(Bits(t) - 1)
       ELSE 0 <= v /\ v < 2^Bits(t)

Wrap_None(t, v) == v
\* reflect.Value.SetInt / SetUint keep the low Bits(t) bits of v
Wrap(t, v) ==
  IF Bits(t) >= 32 THEN v
  ELSE IF Signed(t)
       THEN ((v + 2^(Bits(t) - 1)) % 2^Bits(t)) - 2^(Bits(t) - 1)
       ELSE v % 2^Bits(t)

\* a string is a sequence of characters; a float64 is held as its number of
\* halves (h stands for h / 2), so that x.5 is a value of the model
DigitChars == <<"0", "1", "2", "3", "4", "5", "6", "7", "8", "9">>
DigitVal(c) == (CHOOSE d \in 1..10 : DigitChars[d] = c) - 1
IsDigits(s) == \A i \in DOMAIN s : \E d \in 1..10 : DigitChars[d] = s[i]

\* strconv.FormatInt(n, 10)
RECURSIVE FormatNat(_)
FormatNat(n) ==
  IF n < 10 THEN << DigitChars[n + 1] >>
  ELSE Append(FormatNat(n \div 10), DigitChars[(n % 10) + 1])
FormatInt(n) == IF n < 0 THEN << "-" >> \o FormatNat(0 - n) ELSE FormatNat(n)

\* the digits of s read in base b
RECURSIVE DigitsValue(_, _)
DigitsValue(s, b) ==
  IF s = << >> THEN 0
  ELSE DigitsValue(SubSeq(s, 1, Len(s) - 1), b) * b + DigitVal(s[Len(s)])

\* strconv.ParseUint(s, 0, 64) on strings of digits: base 0 reads a leading
\* "0" as the octal prefix; a sign is a syntax error
ParseUint64(s) ==
  IF s = << >> \/ ~IsDigits(s) THEN [n |-> 0, ok |-> FALSE]
  ELSE IF Len(s) > 1 /\ s[1] = "0"
       THEN IF \E i \in DOMAIN s : DigitVal(s[i]) >= 8
            THEN [n |-> 0, ok |-> FALSE]
            ELSE [n |-> DigitsValue(s, 8), ok |-> TRUE]
       ELSE [n |-> DigitsValue(s, 10), ok |-> TRUE]
\* strconv.ParseInt(s, 0, 64): an optional sign, then as ParseUint
ParseInt64(s) ==
  IF s # << >> /\ s[1] \in {"-", "+"}
  THEN LET u == ParseUint64(Tail(s))
       IN [n |-> IF s[1] = "-" THEN 0 - u.n ELSE u.n, ok |-> u.ok]
  ELSE ParseUint64(s)

\* math.Round on a number of halves: half away from zero
Round(h) ==
  IF h % 2 = 0 THEN h \div 2
  ELSE IF h > 0 THEN (h + 1) \div 2 ELSE (h - 1) \div 2

\* anyconv.go:71-128: int64(n), true for a source of integer type; the
\* rounded value for a float; strconv.ParseInt for a string
AsInt(st, v) ==
  CASE st = "string" -> ParseInt64(v)
    [] st = "float64" -> [n |-> Round(v), ok |-> TRUE]
    [] OTHER -> [n |-> v, ok |-> TRUE]
AsUint_Ok(st, v) == [n |-> IF st \in IntTypes THEN v ELSE 0, ok |-> TRUE]
\* anyconv.go:131-184: uint64(n), with n > 0 as the ok of a signed source
\* (n stands for 2^64 + v when v is negative); a negative float is
\* rejected; strconv.ParseUint for a string
AsUint(st, v) ==
  CASE st = "string" -> ParseUint64(v)
    [] st = "float64" ->
         IF v < 0 THEN [n |-> 0, ok |-> FALSE] ELSE [n |-> Round(v), ok |-> TRUE]
    [] OTHER -> [n |-> v, ok |-> IF Signed(st) THEN v > 0 ELSE TRUE]

\* the closure makeAssignToInt / makeAssignToUint returns for a source type
makeAssignToInt(st) == IF Signed(st) THEN "Set" ELSE "AsInt"
makeAssignToUint(st) == IF st \in UnsignedTypes THEN "Set" ELSE "AsUint"

\* getAssignFunc for an integer destination type (assign.go:41, 230, 260-263)
NumProc(dt, st) ==
  IF dt = st \/ AssignableTo(st, dt) THEN "simpleSet"
  ELSE IF Signed(dt) THEN makeAssignToInt(st) ELSE makeAssignToUint(st)

\* the procedure f run on a destination of type dt that holds dv and a
\* source of type st that holds v; reflect.Value.Set panics unless the
\* source type is assignable to the destination type
NumRun(f, dt, st, v, dv) ==
  CASE f \in {"simpleSet", "Set"} ->
         IF AssignableTo(st, dt) THEN [res |-> "ok", dv |-> v]
         ELSE [res |-> "panic", dv |-> dv]
    [] f = "AsInt" ->
         LET a == AsInt(st, v)
         IN IF a.ok THEN [res |-> "ok", dv |-> Wrap(dt, a.n)]
            ELSE [res |-> "fail", dv |-> dv]
    [] OTHER ->
         LET a == AsUint(st, v)
         IN IF a.ok THEN [res |-> "ok", dv |-> Wrap(dt, a.n)]
            ELSE [res |-> "fail", dv |-> dv]

\* the sources: a value sv of type st; exact says that sv denotes the
\* integer n (a string that is not a decimal numeral, or a float with a
\* fraction, does not)
NumSources ==
  { src \in { [st |-> t, sv |-> x, n |-> x, exact |-> TRUE] :
                t \in IntTypes, x \in NumValues } : Fits(src.st, src.sv) }
  \cup { [st |-> "string", sv |-> FormatInt(x), n |-> x, exact |-> TRUE] :
           x \in NumValues }
  \cup { [st |-> "string", sv |-> x, n |-> 0, exact |-> FALSE] :
           x \in { << >>, <<"a", "b">>, <<"0", "1", "0">>, <<"-">> } }
  \cup { [st |-> "float64", sv |-> h, n |-> h \div 2, exact |-> h % 2 = 0] :
           h \in (0 - 2 * MaxNum)..(2 * MaxNum) }

\* var dst dt = 1; Assign(&dst, src)
InitNum ==
  /\ cache = [p \in {} |-> NoEntry]
  /\ calls = [c \in {} |-> NoRet]
  /\ stack = [t \in Threads |-> << >>]
  /\ ret = [t \in Threads |-> NoRet]
  /\ th = [t \in Threads |-> IdleThread]
  /\ nops = 0
  /\ vlock = 0
  /\ crashed = FALSE
  /\ nilcall = FALSE
  /\ conv = NoConv
  /\ sl = NoSl /\ ep = NoEp /\ fb = NoFb /\ bs = NoBs
  /\ tm = NoTm /\ vr = NoVr
  /\ \E dt \in IntTypes, src \in NumSources :
       num = [pc |-> "assign", dt |-> dt, st |-> src.st, sv |-> src.sv,
              n |-> src.n, exact |-> src.exact, dv |-> 1,
              f |-> "none", res |-> "none"]

\* assign.go:137
NumGetFunc ==
  /\ num.pc = "assign"
  /\ num' = [num EXCEPT !.pc = "call", !.f = NumProc(num.dt, num.st)]
  /\ UNCHANGED <<cacheVars, restOfNum>>

\* assign.go:141
NumCall ==
  /\ num.pc = "call"
  /\ LET r == NumRun(num.f, num.dt, num.st, num.sv, num.dv)
     IN num' = [num EXCEPT !.pc = "done", !.res = r.res, !.dv = r.dv]
  /\ UNCHANGED <<cacheVars, restOfNum>>

NextNum == NumGetFunc \/ NumCall

SpecNum == InitNum /\ [][NextNum]_vars

\* ------------------------------------------------------ properties, part C
\* C10: Assign between two different integer types of the same signedness,
\* of a value the destination type can hold, does not panic, reports
\* success and stores that value
C10_SameSignednessPreservesValue ==
  (/\ num.pc = "done" /\ num.dt # num.st /\ num.st \in IntTypes
   /\ Signed(num.dt) = Signed(num.st)
   /\ Fits(num.dt, num.sv))
    => num.res = "ok" /\ num.dv = num.sv

\* the source is numeric, denotes the integer n, and is converted by the
\* coercion primitives (it is not an integer of the destination's
\* signedness), and n is outside the range of the destination type
Overflows ==
  /\ num.pc = "done" /\ num.exact
  /\ num.st \notin IntTypes \/ Signed(num.st) # Signed(num.dt)
  /\ ~Fits(num.dt, num.n)

C12_NonNegativeIntoUnsigned ==
  (num.pc = "done" /\ num.st \in SignedTypes /\ num.dt \in UnsignedTypes) =>
    /\ (num.sv >= 0 /\ Fits(num.dt, num.sv)) =>
         num.res = "ok" /\ num.dv = num.sv
    /\ num.sv < 0 => num.res = "fail"

\* ==========================================================================
\* Part D: slice-to-slice Assign into one destination variable
\* ==========================================================================
MaxLen == 3
MaxCalls == 3

\* var dst []string; Assign(&dst, src) with src a []int
SliceElems == {0, 12}
RECURSIVE SeqsUpTo(_, _)
SeqsUpTo(S, n) ==
  IF n = 0 THEN { << >> }
  ELSE LET shorter == SeqsUpTo(S, n - 1)
       IN shorter \cup { Append(q, x) : q \in {r \in shorter : Len(r) = n - 1},
                                        x \in S }
SliceSources == SeqsUpTo(SliceElems, MaxLen)

\* the capacities runtime.growslice may give a slice that needs `need'
NewCaps(need) == {need, need + 1}

\* reflect.Value.Grow(n) on a slice of length len and capacity cap: the
\* capacity is raised only if len + n does not fit
Grow(len, cap, n) == IF len + n > cap THEN NewCaps(len + n) ELSE {cap}

\* the closure of assign.go:513-526 on a destination of length len and
\* capacity cap: the outcomes it can have
SliceRun(len, cap, src) ==
  LET ln == Len(src)
      caps == IF cap < ln THEN Grow(len, cap, ln - cap) ELSE {cap}
  IN { IF ln > c
       THEN [res |-> "panic", len |-> len, cap |-> c, elems |-> << >>]
       ELSE [res |-> "ok", len |-> ln, cap |-> c,
             elems |-> [i \in 1..ln |-> FormatInt(src[i])]] : c \in caps }

\* dst is nil, or make([]string, len, cap) holding empty strings
InitSlice ==
  /\ cache = [p \in {} |-> NoEntry]
  /\ calls = [c \in {} |-> NoRet]
  /\ stack = [t \in Threads |-> << >>]
  /\ ret = [t \in Threads |-> NoRet]
  /\ th = [t \in Threads |-> IdleThread]
  /\ nops = 0
  /\ vlock = 0
  /\ crashed = FALSE
  /\ nilcall = FALSE
  /\ conv = NoConv /\ num = NoNum /\ ep = NoEp /\ fb = NoFb /\ bs = NoBs
  /\ tm = NoTm /\ vr = NoVr
  /\ \E cap \in 0..MaxLen : \E len \in 0..cap :
       sl = [pc |-> "idle", len |-> len, cap |-> cap,
             elems |-> [i \in 1..len |-> << >>], ncalls |-> 0,
             res |-> "none", src |-> << >>]

\* Assign(&dst, src)
SliceAssign(src) ==
  /\ sl.pc = "idle" /\ sl.ncalls < MaxCalls
  /\ \E r \in SliceRun(sl.len, sl.cap, src) :
       sl' = [pc |-> IF r.res = "panic" THEN "panic" ELSE "idle",
              len |-> r.len, cap |-> r.cap,
              elems |-> IF r.res = "panic" THEN sl.elems ELSE r.elems,
              ncalls |-> sl.ncalls + 1, res |-> r.res, src |-> src]
  /\ UNCHANGED <<cacheVars, conv, num, ep, fb, bs, tm, vr>>

NextSlice == \E src \in SliceSources : SliceAssign(src)

SpecSlice == InitSlice /\ [][NextSlice]_vars

\* ------------------------------------------------------ properties, part D
\* C13: every slice-to-slice Assign into the destination variable completes
\* without panic and leaves it with the source's length and with element i
\* the conversion of source element i
C13_SliceAssignNeverPanics ==
  sl.ncalls > 0 =>
    /\ sl.res = "ok"
    /\ sl.len = Len(sl.src)
    /\ \A i \in 1..sl.len : sl.elems[i] = FormatInt(sl.src[i])

\* ==========================================================================
\* Part E: the entry points Assign and As
\* ==========================================================================
\* what the caller passes as dst: a string (not a pointer), a nil *T, the
\* untyped nil, or the address of a variable of type T
DstArgs == {"nonptr", "nilptr", "nil", "ptr"}
\* the sources: the untyped nil, or a string
EpSources == {"nil", "7", "ab"}
PtrTo(t) ==
  CASE t = "int" -> "PInt" [] t = "string" -> "PStr" [] t = "S" -> "PS"
    [] OTHER -> "PD"
AssignTypes == {"int", "string", "S"}
AsTypes == {"int", "string", "S", "PStr", "any"}

\* reflect.Zero(t), and what a variable of type t holds before the call
ZeroOf(t) == [zero |-> t]
OldOf(t) == [old |-> t]

\* newAssignFunc(d, s) returns a procedure, not ErrAssignImpossible
RECURSIVE SynthOk(_, _)
SynthOk(d, s) ==
  LET st == Strategy(d, s) IN
  CASE st = "ptrReadAndAssign" -> SynthOk(d, Elem(s))
    [] st = "newNewAndAssign" -> SynthOk(Elem(d), s)
    [] st = "impossible" -> FALSE
    [] OTHER -> TRUE

\* assign.go:127: the destination is a pointer and is not nil
DestOk_NonNil(dst) == dst \in {"ptr", "nonptr"}
DestOk(dst) == dst = "ptr"

\* getAssignFunc(d, s) called alone: the error, and the cache afterwards
GetFunc(d, s) ==
  IF d = s \/ Load(<<d, s>>) # NoEntry THEN [err |-> "nil", cache |-> cache]
  ELSE IF SynthOk(d, s)
       THEN [err |-> "nil",
             cache |-> CacheStore(<<d, s>>, Conv(d, s, NoCall, {}))]
       ELSE [err |-> "ErrAssignImpossible", cache |-> cache]

\* Assign(dst, src), dst being of type *t when it is a pointer, on a
\* variable that holds dv: the result, the variable and the cache afterwards
Assign(dst, t, src, dv) ==
  IF ~DestOk(dst)
  THEN [res |-> "ErrAssignDestNotPointer", dv |-> dv, cache |-> cache]
  ELSE IF src = "nil"
       \* reflect.ValueOf(nil).Type() panics (assign.go:137)
       THEN [res |-> "panic", dv |-> dv, cache |-> cache]
       ELSE LET g == GetFunc(PtrTo(t), "string")
                \* newNewAndAssign on a pointer that is not nil
                r == ExecAssign(t, "string", Val(StrV(src)))
            IN IF g.err # "nil"
               THEN [res |-> g.err, dv |-> dv, cache |-> g.cache]
               ELSE [res |-> r.err,
                     dv |-> IF r.err = "nil" THEN r.val ELSE dv,
                     cache |-> g.cache]

\* As[t](src): the error, the value returned, and the cache afterwards;
\* the assertion .(T) of assign.go:216 panics on a nil interface value
As(t, src) ==
  LET g == GetFunc(t, "string")
      r == ExecAssign(t, "string", Val(StrV(src)))
      a == IF src = "nil"
           THEN [res |-> "ErrInvalidSource", out |-> ZeroOf(t), cache |-> cache]
           ELSE IF g.err # "nil"
                THEN [res |-> g.err, out |-> ZeroOf(t), cache |-> g.cache]
                ELSE [res |-> r.err,
                      out |-> IF r.err = "nil" THEN r.val ELSE ZeroOf(t),
                      cache |-> g.cache]
  IN IF Kind(t) = "iface" /\ a.out = ZeroOf(t)
     THEN [a EXCEPT !.res = "panic"] ELSE a

NoCache == [p \in {} |-> NoEntry]

InitEntry ==
  /\ cache = NoCache
  /\ calls = [c \in {} |-> NoRet]
  /\ stack = [t \in Threads |-> << >>]
  /\ ret = [t \in Threads |-> NoRet]
  /\ th = [t \in Threads |-> IdleThread]
  /\ nops = 0
  /\ vlock = 0
  /\ crashed = FALSE
  /\ nilcall = FALSE
  /\ conv = NoConv /\ num = NoNum /\ sl = NoSl /\ fb = NoFb /\ bs = NoBs
  /\ tm = NoTm /\ vr = NoVr
  /\ ep = [pc |-> "idle", ncalls |-> 0, fn |-> "none", dst |-> "none",
           t |-> "none", src |-> "none", res |-> "none",
           dv0 |-> OldOf("none"), dv |-> OldOf("none"),
           out |-> ZeroOf("none"), cache0 |-> NoCache]

\* var x t (holding its old value); Assign(dst, src)
CallAssign(dst, t, src) ==
  /\ ep.pc = "idle" /\ ep.ncalls < MaxCalls
  /\ LET a == Assign(dst, t, src, OldOf(t)) IN
       /\ ep' = [pc |-> IF a.res = "panic" THEN "panic" ELSE "idle",
                 ncalls |-> ep.ncalls + 1, fn |-> "Assign", dst |-> dst,
                 t |-> t, src |-> src, res |-> a.res,
                 dv0 |-> OldOf(t), dv |-> a.dv, out |-> ZeroOf("none"),
                 cache0 |-> cache]
       /\ cache' = a.cache
  /\ UNCHANGED <<calls, stack, ret, th, nops, vlock, crashed, nilcall,
                 conv, num, sl, fb, bs, tm, vr>>

\* As[t](src)
CallAs(t, src) ==
  /\ ep.pc = "idle" /\ ep.ncalls < MaxCalls
  /\ LET a == As(t, src) IN
       /\ ep' = [pc |-> IF a.res = "panic" THEN "panic" ELSE "idle",
                 ncalls |-> ep.ncalls + 1, fn |-> "As", dst |-> "none",
                 t |-> t, src |-> src, res |-> a.res,
                 dv0 |-> OldOf(t), dv |-> OldOf(t), out |-> a.out,
                 cache0 |-> cache]
       /\ cache' = a.cache
  /\ UNCHANGED <<calls, stack, ret, th, nops, vlock, crashed, nilcall,
                 conv, num, sl, fb, bs, tm, vr>>

NextEntry ==
  \/ \E dst \in DstArgs, t \in AssignTypes, src \in EpSources :
       CallAssign(dst, t, src)
  \/ \E t \in AsTypes, src \in EpSources : CallAs(t, src)

SpecEntry == InitEntry /\ [][NextEntry]_vars

\* ------------------------------------------------------ properties, part E
\* C14: Assign(dst, nil) with dst a pointer that is not nil returns the
\* invalid-source error, does not panic, and leaves *dst unchanged
C14_NilSourceIsAnError ==
  (ep.fn = "Assign" /\ ep.dst = "ptr" /\ ep.src = "nil") =>
    ep.res = "ErrInvalidSource" /\ ep.dv = ep.dv0

\* C15: As[T](nil) returns the invalid-source error and the zero value of
\* T, for every T, without panic and without a new cache entry
C15_AsNilReturnsZero ==
  (ep.fn = "As" /\ ep.src = "nil") =>
    /\ ep.res = "ErrInvalidSource"
    /\ ep.out = ZeroOf(ep.t)
    /\ cache = ep.cache0

\* C16: Assign returns ErrAssignDestNotPointer when dst is not a pointer or
\* is a nil pointer, whatever the source, and neither the cache nor any
\* variable changes
C16_DestNotPointer ==
  (ep.fn = "Assign" /\ ep.dst # "ptr") =>
    /\ ep.res = "ErrAssignDestNotPointer"
    /\ cache = ep.cache0
    /\ ep.dv = ep.dv0

\* a nil pointer destination was refused, with a nil source, after an
\* earlier call had put a procedure in the cache
C16_Witness ==
  /\ ep.fn = "Assign" /\ ep.dst = "nilptr" /\ ep.src = "nil"
  /\ ep.res = "ErrAssignDestNotPointer"
  /\ cache # NoCache

\* ==========================================================================
\* Part F: which source field or map key a destination field is bound to
\* ==========================================================================
\* Field names, map keys and json tags are sequences of characters. The
\* i-th field of a struct is declared Upper[i] (exported) or Lower[i]
\* (unexported); every field is a string.
Upper == <<"A", "B", "C", "D">>
Lower == <<"a", "b", "c", "d">>
UpperChars == {Upper[i] : i \in DOMAIN Upper} \cup {"Z"}
Nxt(i) == (i % MaxFields) + 1
Max(S) == CHOOSE x \in S : \A y \in S : y <= x

\* reflect.StructField.IsExported
IsExported(f) == f.name[1] \in UpperChars

\* strings.Split(jsonTag, ",")[0]
RECURSIVE FirstSegment(_)
FirstSegment(tag) ==
  IF tag = << >> \/ Head(tag) = "," THEN << >>
  ELSE <<Head(tag)>> \o FirstSegment(Tail(tag))

\* assign.go:304-318, 324-338, 385-404: the field takes part unless it is
\* unexported or its json tag starts with '-'
Takes_Any(f) == TRUE
Takes(f) == IsExported(f) /\ ~(f.json # << >> /\ Head(f.json) = "-")

\* assign.go:309-319, 328-338, 394-404: the name a field is looked up by
ResolvedName_Raw(f) == f.name
ResolvedName(f) ==
  IF f.json # << >> /\ Head(f.json) # "," THEN FirstSegment(f.json)
  ELSE f.name

\* the fields a destination struct can declare at position i: plain; json
\* "-" with a validator; renamed to the next field's declared name;
\* unexported; plain with a validator; json ",omitempty"; unexported with
\* a validator; json "-" of the struct type S. The other fields, the source
\* fields and the values of a source map are strings.
\* valb_test upper-cases the string its *string points to.
DstFieldsAt(i) ==
  { [name |-> <<Upper[i]>>, json |-> << >>, val |-> << >>, type |-> "string"],
    [name |-> <<Upper[i]>>, json |-> <<"-">>, val |-> <<"valb_test">>,
     type |-> "string"],
    [name |-> <<Upper[i]>>, json |-> <<Upper[Nxt(i)]>>, val |-> << >>,
     type |-> "string"],
    [name |-> <<Lower[i]>>, json |-> << >>, val |-> << >>, type |-> "string"],
    [name |-> <<Upper[i]>>, json |-> << >>, val |-> <<"valb_test">>,
     type |-> "string"],
    [name |-> <<Upper[i]>>, json |-> <<",", "o">>, val |-> << >>,
     type |-> "string"],
    [name |-> <<Lower[i]>>, json |-> << >>, val |-> <<"valb_test">>,
     type |-> "string"],
    [name |-> <<Upper[i]>>, json |-> <<"-">>, val |-> << >>, type |-> "S"] }

\* the fields a source struct can declare at position i: plain; renamed to
\* the next field's declared name (with an option); unexported; json "-"
SrcFieldsAt(i) ==
  { [name |-> <<Upper[i]>>, json |-> << >>],
    [name |-> <<Upper[i]>>, json |-> <<Upper[Nxt(i)], ",", "o">>],
    [name |-> <<Lower[i]>>, json |-> << >>],
    [name |-> <<Upper[i]>>, json |-> <<"-">>] }

\* the keys a source map can hold
KeyPool == {<<Upper[i]>> : i \in FieldIdx} \cup {<<Lower[1]>>, <<"Z">>}

\* what the sources hold: the i-th source field holds the string Upper[i],
\* the map entry of key k holds k's letter ("7" under a lower-case key);
\* every destination field holds "ab" before the conversion
SrcFieldValue(i) == Upper[i]
MapValue(k) == IF k[1] \in UpperChars THEN k[1] ELSE "7"
OldValue == "ab"

\* assign.go:301-321: fieldsIn, the source field index under each resolved
\* name; a later field replaces an earlier one of the same resolved name
fieldsIn(sf) ==
  LET in == {i \in DOMAIN sf : Takes(sf[i])} IN
  [n \in {ResolvedName(sf[i]) : i \in in} |->
     Max({i \in in : ResolvedName(sf[i]) = n})]

\* assign.go:322-354: the bound fields, in destination declaration order
StructBindings(df, sf) ==
  LET fin == fieldsIn(sf) IN
  SelectSeq([i \in DOMAIN df |->
               [out |-> i,
                in |-> IF Takes(df[i]) /\ ResolvedName(df[i]) \in DOMAIN fin
                       THEN fin[ResolvedName(df[i])] ELSE 0]],
            LAMBDA b : b.in # 0)

\* the type of the map's values (srct.Elem())
MapValueType == "string"

\* assign.go:385-393: newAssignFunc for every exported field, in declaration
\* order, before the field's json tag is looked at
SynthesizedFields(df) == {i \in DOMAIN df : IsExported(df[i])}
MapSynthErr(df) ==
  IF \E i \in SynthesizedFields(df) :
       Strategy(df[i].type, MapValueType) = "impossible"
  THEN "ErrAssignImpossible" ELSE "nil"

\* assign.go:382-405: fields, the destination field index under each
\* resolved name; a later field replaces an earlier one of the same name
MapBindings(df) ==
  LET out == {i \in DOMAIN df : Takes(df[i])} IN
  [n \in {ResolvedName(df[i]) : i \in out} |->
     Max({i \in out : ResolvedName(df[i]) = n})]

\* validator.go:201-213 on the destination struct, from field i on: the
\* values the fields hold afterwards and the error returned. The address
\* of an unexported field is read-only, and reflect.Value.Set panics when
\* given it as its source.
RECURSIVE validate(_, _, _)
validate(df, dst, i) ==
  IF i > Len(df) THEN [dst |-> dst, result |-> Nil]
  ELSE IF df[i].val = << >> THEN validate(df, dst, i + 1)
  ELSE IF ~IsExported(df[i])
  THEN [dst |-> dst, result |-> [field |-> NoField, err |-> "panic"]]
  ELSE LET r == runReflectValue(df[i].val[1], dst[i]) IN
       IF r.err # "nil"
       THEN [dst |-> [dst EXCEPT ![i] = r.after],
             result |-> OnField(df[i].name, r.err)]
       ELSE validate(df, [dst EXCEPT ![i] = r.after], i + 1)

InitBind ==
  /\ cache = [p \in {} |-> NoEntry]
  /\ calls = [c \in {} |-> NoRet]
  /\ stack = [t \in Threads |-> << >>]
  /\ ret = [t \in Threads |-> NoRet]
  /\ th = [t \in Threads |-> IdleThread]
  /\ nops = 0
  /\ vlock = 0
  /\ crashed = FALSE
  /\ nilcall = FALSE
  /\ conv = NoConv /\ num = NoNum
  /\ sl = NoSl /\ ep = NoEp /\ bs = NoBs
  /\ tm = NoTm /\ vr = NoVr
  /\ \E df \in [FieldIdx -> UNION {DstFieldsAt(i) : i \in FieldIdx}] :
       /\ \A i \in FieldIdx : df[i] \in DstFieldsAt(i)
       /\ \/ \E sf \in [FieldIdx -> UNION {SrcFieldsAt(i) : i \in FieldIdx}] :
               /\ \A i \in FieldIdx : sf[i] \in SrcFieldsAt(i)
               /\ fb = [pc |-> "make", mode |-> "struct", df |-> df,
                        sf |-> sf, keys |-> {}, todo |-> {},
                        fields |-> << >>, mfields |-> << >>, k |-> 1,
                        dst |-> [i \in FieldIdx |-> OldValue],
                        wlog |-> << >>, result |-> Nil]
          \/ \E keys \in SUBSET KeyPool :
               fb = [pc |-> "make", mode |-> "map", df |-> df,
                     sf |-> << >>, keys |-> keys, todo |-> keys,
                     fields |-> << >>, mfields |-> << >>, k |-> 1,
                     dst |-> [i \in FieldIdx |-> OldValue],
                     wlog |-> << >>, result |-> Nil]

\* makeAssignStructToStruct / makeAssignMapToStruct build the procedure
BindSynth ==
  /\ fb.pc = "make"
  /\ IF fb.mode = "map" /\ MapSynthErr(fb.df) # "nil"
     THEN fb' = [fb EXCEPT !.pc = "done",
                           !.result = [field |-> NoField,
                                       err |-> MapSynthErr(fb.df)]]
     ELSE fb' = [fb EXCEPT
              !.pc = "run",
              !.fields = IF fb.mode = "struct"
                         THEN StructBindings(fb.df, fb.sf) ELSE @,
              !.mfields = IF fb.mode = "map" THEN MapBindings(fb.df) ELSE @]
  /\ UNCHANGED <<cacheVars, conv, num, sl, ep, bs, tm, vr>>

\* assign.go:360-365: the next bound field is written
BindField ==
  /\ fb.pc = "run" /\ fb.mode = "struct"
  /\ fb.k <= Len(fb.fields)
  /\ LET b == fb.fields[fb.k] IN
       fb' = [fb EXCEPT !.dst[b.out] = SrcFieldValue(b.in),
                        !.wlog = Append(@, [out |-> b.out, in |-> b.in,
                                            key |-> ResolvedName(fb.sf[b.in])]),
                        !.k = @ + 1]
  /\ UNCHANGED <<cacheVars, conv, num, sl, ep, bs, tm, vr>>

\* assign.go:409-419: the next map entry, in the map's iteration order
BindEntry(key) ==
  /\ fb.pc = "run" /\ fb.mode = "map"
  /\ key \in fb.todo
  /\ IF key \in DOMAIN fb.mfields
     THEN fb' = [fb EXCEPT !.dst[fb.mfields[key]] = MapValue(key),
                           !.wlog = Append(@, [out |-> fb.mfields[key],
                                               in |-> 0, key |-> key]),
                           !.todo = @ \ {key}]
     ELSE fb' = [fb EXCEPT !.todo = @ \ {key}]
  /\ UNCHANGED <<cacheVars, conv, num, sl, ep, bs, tm, vr>>

\* assign.go:366-369, 420-423: validate, once the loop has ended
BindValidate ==
  /\ fb.pc = "run"
  /\ IF fb.mode = "struct" THEN fb.k > Len(fb.fields) ELSE fb.todo = {}
  /\ LET v == validate(fb.df, fb.dst, 1) IN
       fb' = [fb EXCEPT !.pc = "done", !.dst = v.dst, !.result = v.result]
  /\ UNCHANGED <<cacheVars, conv, num, sl, ep, bs, tm, vr>>

NextBind ==
  BindSynth \/ BindField \/ (\E key \in KeyPool : BindEntry(key)) \/ BindValidate

SpecBind == InitBind /\ [][NextBind]_vars

\* ------------------------------------------------------ properties, part F
\* the alias a json tag declares (empty when it declares none), and the
\* name a source is known by: its alias, else its declared name / its key
AliasOf(f) == FirstSegment(f.json)
SourceName(w) ==
  IF fb.mode = "map" THEN w.key
  ELSE IF AliasOf(fb.sf[w.in]) # << >> THEN AliasOf(fb.sf[w.in])
  ELSE fb.sf[w.in].name
\* the sources that are present under the name n
SourcesNamed(n) ==
  IF fb.mode = "map" THEN {k \in fb.keys : k = n}
  ELSE {i \in DOMAIN fb.sf :
          /\ IsExported(fb.sf[i])
          /\ IF AliasOf(fb.sf[i]) # << >> THEN AliasOf(fb.sf[i]) = n
             ELSE fb.sf[i].name = n}

\* C17: a destination field that declares an alias is written once at
\* most, from the source field or map key whose name is the alias, and
\* never from the source that goes by the field's declared name
C17_AliasWins ==
  \A j \in DOMAIN fb.wlog :
    LET w == fb.wlog[j]
        d == fb.df[w.out]
    IN AliasOf(d) # << >> =>
         /\ SourceName(w) = AliasOf(d)
         /\ AliasOf(d) # d.name => SourceName(w) # d.name
         /\ \A k \in DOMAIN fb.wlog : fb.wlog[k].out = w.out => k = j
         /\ fb.dst[w.out] \in
              {IF fb.mode = "map" THEN MapValue(w.key) ELSE SrcFieldValue(w.in),
               ToUpper(IF fb.mode = "map" THEN MapValue(w.key)
                       ELSE SrcFieldValue(w.in))}

\* a conversion has ended in which a renamed destination field took the
\* value of the source named by its alias while a source going by the
\* field's declared name was present too
C17_Witness ==
  /\ fb.pc = "done" /\ fb.result = Nil
  /\ \E j \in DOMAIN fb.wlog :
       LET w == fb.wlog[j]
           d == fb.df[w.out]
       IN /\ AliasOf(d) # << >> /\ AliasOf(d) # d.name
          /\ SourceName(w) = AliasOf(d)
          /\ SourcesNamed(d.name) # {}
          /\ fb.dst[w.out] = AliasOf(d)[1]

\* the destination fields a conversion has nothing to write to: unexported,
\* tagged json "-", or with no source going by the field's resolved name
DstName(d) == IF AliasOf(d) # << >> THEN AliasOf(d) ELSE d.name
Frame ==
  {i \in FieldIdx :
     \/ ~IsExported(fb.df[i])
     \/ fb.df[i].json = <<"-">>
     \/ SourcesNamed(DstName(fb.df[i])) = {}}
\* the sources no destination field goes by
UnmatchedSources ==
  LET names == {DstName(fb.df[i]) :
                  i \in {i \in FieldIdx : IsExported(fb.df[i])
                                          /\ fb.df[i].json # <<"-">>}}
  IN IF fb.mode = "map" THEN fb.keys \ names
     ELSE {i \in DOMAIN fb.sf :
             \/ ~IsExported(fb.sf[i])
             \/ fb.sf[i].json = <<"-">>
             \/ \A n \in names : i \notin SourcesNamed(n)}

\* C18 (as stated): every such destination field holds what it held before
\* the conversion, and the conversion returns no error
C18_UnboundFieldsUnchanged ==
  /\ \A i \in Frame : fb.dst[i] = OldValue
  /\ fb.pc = "done" => fb.result = Nil

\* C18 (amended): the binding loop writes none of these fields and fails
\* on no source; such a field changes only in the validation pass that
\* follows, when it is exported and carries a validator that writes through
\* the field's address; an error can only come from a validator-tagged
\* field, or from a synthesis that fails before anything is written
C18_UnboundFieldsNotBound ==
  /\ \A j \in DOMAIN fb.wlog : fb.wlog[j].out \notin Frame
  /\ fb.pc # "done" => fb.result = Nil /\ \A i \in Frame : fb.dst[i] = OldValue
  /\ \A i \in Frame :
       fb.dst[i] # OldValue =>
         /\ fb.df[i].val # << >> /\ IsExported(fb.df[i])
         /\ fb.dst[i] = ToUpper(OldValue)
  /\ \A i \in Frame : fb.df[i].val = << >> => fb.dst[i] = OldValue
  /\ fb.result # Nil =>
       \/ \E i \in FieldIdx : fb.df[i].val # << >>
       \/ /\ fb.result.err = "ErrAssignImpossible" /\ fb.wlog = << >>
          /\ \E i \in FieldIdx : fb.df[i].type # "string"

\* a conversion has succeeded that wrote a field, passed over a source no
\* field goes by, and left a json "-" field changed by that field's validator
C18_Witness ==
  /\ fb.pc = "done" /\ fb.result = Nil
  /\ fb.wlog # << >>
  /\ UnmatchedSources # {}
  /\ \E i \in Frame : fb.df[i].json = <<"-">> /\ fb.dst[i] = "AB"

\* ==========================================================================
\* Part G: []byte to string and string to []byte (base64.StdEncoding)
\* ==========================================================================
\* A byte is a number in 0..255. A character of a string is written as its
\* place in the base64 alphabet (0..63: 'A' is 0, 'Q' is 16, '/' is 63), Pad
\* for '=', NL for '\n' and Bad for a character outside the alphabet ('!').
Pad == 64
NL == 65
Bad == 66
Alphabet == 0..63
SomeBytes == {0, 77, 255}
SomeChars == {16, 17, Pad, NL, Bad}

\* the byte sequences given to Assign(&str, b), and the strings given to
\* Assign(&out, s) directly
ByteSources == SeqsUpTo(SomeBytes, MaxLen)
StringSources == SeqsUpTo(SomeChars, MaxLen + 1)

\* base64.Encoding.Encode of the last one or two bytes, with padding
EncodeLast_NoPad(b) ==
  IF Len(b) = 1 THEN <<b[1] \div 4, (b[1] % 4) * 16>>
  ELSE <<b[1] \div 4, (b[1] % 4) * 16 + (b[2] \div 16), (b[2] % 16) * 4>>
EncodeLast(b) ==
  IF Len(b) = 1 THEN <<b[1] \div 4, (b[1] % 4) * 16, Pad, Pad>>
  ELSE <<b[1] \div 4, (b[1] % 4) * 16 + (b[2] \div 16), (b[2] % 16) * 4, Pad>>

\* base64.StdEncoding.EncodeToString
RECURSIVE EncodeToString(_)
EncodeToString(b) ==
  IF b = << >> THEN << >>
  ELSE IF Len(b) < 3 THEN EncodeLast(b)
  ELSE <<b[1] \div 4, (b[1] % 4) * 16 + (b[2] \div 16),
         (b[2] % 16) * 4 + (b[3] \div 64), b[3] % 64>>
       \o EncodeToString(SubSeq(b, 4, Len(b)))

\* base64.StdEncoding.DecodeString on a string without '\r' and '\n':
\* quanta of four characters; padding only ends the last quantum; the
\* bits left over in a padded quantum are not looked at
DecodeFails == [ok |-> FALSE, bytes |-> << >>]
RECURSIVE DecodeQuanta(_)
DecodeQuanta(s) ==
  IF s = << >> THEN [ok |-> TRUE, bytes |-> << >>]
  ELSE IF Len(s) < 4 THEN DecodeFails
  ELSE LET rest == SubSeq(s, 5, Len(s))
           b1 == s[1] * 4 + (s[2] \div 16)
           b2 == (s[2] % 16) * 16 + (s[3] \div 4)
           b3 == (s[3] % 4) * 64 + s[4]
       IN IF s[1] \notin Alphabet \/ s[2] \notin Alphabet THEN DecodeFails
          ELSE IF s[3] = Pad
          THEN IF s[4] = Pad /\ rest = << >>
               THEN [ok |-> TRUE, bytes |-> <<b1>>] ELSE DecodeFails
          ELSE IF s[3] \notin Alphabet THEN DecodeFails
          ELSE IF s[4] = Pad
          THEN IF rest = << >>
               THEN [ok |-> TRUE, bytes |-> <<b1, b2>>] ELSE DecodeFails
          ELSE IF s[4] \notin Alphabet THEN DecodeFails
          ELSE LET r == DecodeQuanta(rest)
               IN IF r.ok THEN [ok |-> TRUE, bytes |-> <<b1, b2, b3>> \o r.bytes]
                  ELSE DecodeFails

\* DecodeString ignores the new line characters of its input
DecodeString(s) == DecodeQuanta(SelectSeq(s, LAMBDA c : c # NL))

\* what the destinations hold before the calls
OldBytes == <<9>>
OldString == <<Bad>>

InitBytes ==
  /\ cache = [p \in {} |-> NoEntry]
  /\ calls = [c \in {} |-> NoRet]
  /\ stack = [t \in Threads |-> << >>]
  /\ ret = [t \in Threads |-> NoRet]
  /\ th = [t \in Threads |-> IdleThread]
  /\ nops = 0
  /\ vlock = 0
  /\ crashed = FALSE
  /\ nilcall = FALSE
  /\ conv = NoConv /\ num = NoNum
  /\ sl = NoSl /\ ep = NoEp /\ fb = NoFb
  /\ tm = NoTm /\ vr = NoVr
  /\ \/ \E b \in ByteSources :
          bs = [pc |-> "bytes", from |-> "bytes", b |-> b, str |-> OldString,
                out |-> OldBytes, res |-> "none"]
     \/ \E s \in StringSources :
          bs = [pc |-> "string", from |-> "string", b |-> << >>, str |-> s,
                out |-> OldBytes, res |-> "none"]

\* Assign(&str, b): assign.go:478-485
BytesToString ==
  /\ bs.pc = "bytes"
  /\ bs' = [bs EXCEPT !.pc = "string", !.str = EncodeToString(bs.b)]
  /\ UNCHANGED <<cacheVars, conv, num, sl, ep, fb, tm, vr>>

\* Assign(&out, str): assign.go:540-547
StringToBytes ==
  /\ bs.pc = "string"
  /\ LET d == DecodeString(bs.str) IN
       bs' = [bs EXCEPT !.pc = "done",
                        !.res = IF d.ok THEN "nil" ELSE "CorruptInputError",
                        !.out = IF d.ok THEN d.bytes ELSE @]
  /\ UNCHANGED <<cacheVars, conv, num, sl, ep, fb, tm, vr>>

NextBytes == BytesToString \/ StringToBytes

SpecBytes == InitBytes /\ [][NextBytes]_vars

\* ------------------------------------------------------ properties, part G
\* standard base64 with padding, line breaks allowed: without its new line
\* characters the string is a whole number of groups of four characters of
\* the alphabet, the last group possibly ending in one or two '='
ValidBase64(s) ==
  LET t == SelectSeq(s, LAMBDA c : c # NL)
      n == Len(t)
  IN /\ n % 4 = 0
     /\ \A i \in 1..n :
          \/ t[i] \in Alphabet
          \/ t[i] = Pad /\ i = n
          \/ t[i] = Pad /\ i = n - 1 /\ t[n] = Pad

\* C19: a byte sequence assigned into a string and that string assigned
\* into a byte slice gives the byte sequence back, without error; a string
\* that is not valid base64 is refused and the byte slice is not written
C19_BytesRoundTrip ==
  bs.pc = "done" =>
    /\ bs.from = "bytes" => bs.res = "nil" /\ bs.out = bs.b
    /\ ~ValidBase64(bs.str) => bs.res # "nil" /\ bs.out = OldBytes

\* a byte sequence of two bytes or more whose encoding ends in padding has
\* made the round trip
C19_Witness ==
  /\ bs.pc = "done" /\ bs.from = "bytes" /\ bs.res = "nil"
  /\ bs.out = bs.b
  /\ Len(bs.b) >= 2 /\ bs.str[Len(bs.str)] = Pad

\* ------------------------------------------- properties, part B (continued)
\* C20 (as stated): in struct-to-struct execution a bound field's
\* validators run before any later-declared field has been written
C20_ValidatorsRunAfterEachWrite ==
  conv.mode = "struct" =>
    \A j \in DOMAIN conv.vlog :
      conv.vlog[j].fld \in conv.bound =>
        \A i \in conv.vlog[j].written : i <= conv.vlog[j].fld

\* C20 (amended): no validator runs while a bound field is still to be
\* written, so when a field's validator fails every bound field has been
\* written and each later-declared bound field holds its converted value
C20_ValidatorsRunAfterAllWrites ==
  conv.mode = "struct" =>
    /\ conv.todo # {} => conv.vlog = << >>
    /\ Failed # {} =>
         /\ conv.written = conv.bound
         /\ \A i \in conv.bound :
              i > conv.vlog[Len(conv.vlog)].fld => conv.dst[i] = conv.src[i]

\* a bound field's validator has failed in a struct-to-struct conversion
\* while a later-declared bound field holds the value converted into it
C20_Witness ==
  /\ conv.mode = "struct" /\ conv.pc = "done" /\ Failed # {}
  /\ LET f == conv.vlog[Len(conv.vlog)].fld IN
       /\ f \in conv.bound
       /\ \E i \in conv.bound :
            i > f /\ conv.src[i] # "" /\ conv.dst[i] = conv.src[i]

\* C21 (as stated): in map-to-struct conversion a matched field's
\* validators run when its map entry is visited, so a tagged field that
\* has been written has been validated
C21_ValidatedWhenVisited ==
  conv.mode = "map" =>
    \A i \in conv.written \cap Tagged :
      \E j \in DOMAIN conv.vlog : conv.vlog[j].fld = i

\* C21 (amended): in map-to-struct conversion no validator runs before
\* every map entry has been visited; the validators then run in declared
\* field order, whatever the order the entries were visited in, and the
\* field reported is the first one in declared order whose validator fails
C21_ValidatedInDeclaredOrder ==
  conv.mode = "map" =>
    /\ conv.todo # {} => conv.vlog = << >>
    /\ RunsInOrder
    /\ \A j \in DOMAIN conv.vlog : \A k \in DOMAIN conv.vlog :
         j < k => conv.vlog[j].fld <= conv.vlog[k].fld
    /\ Failed # {} =>
         /\ conv.result.field = FieldName(conv.vlog[Len(conv.vlog)].fld)
         /\ \A j \in DOMAIN conv.vlog :
              conv.vlog[j].fld <= conv.vlog[Len(conv.vlog)].fld

\* a map-to-struct conversion visited the entry of a later-declared tagged
\* field first, and yet validated the earlier-declared field first and
\* reported its failure
C21_Witness ==
  /\ conv.mode = "map" /\ conv.pc = "done" /\ Failed # {}
  /\ Len(conv.order) >= 2 /\ conv.order[1] > conv.order[2]
  /\ conv.order[1] \in Tagged
  /\ conv.vlog[1].fld = conv.order[2]
  /\ conv.result.field = FieldName(conv.order[2])

\* the fields whose validator tag names a validator that is not registered
\* or gives minlength an extra argument that is not an int
Unresolved ==
  {i \in FieldIdx :
     \E k \in DOMAIN conv.tags[i] :
       conv.tags[i][k] \notin DOMAIN validators \/ conv.tags[i][k] = "minlength=x"}

\* C28: a conversion into a struct one of whose fields carries a validator
\* tag that cannot be resolved ends with an error
C28_TagErrorSurfaced ==
  (Conversion /\ conv.pc = "done" /\ Unresolved # {}) => conv.result # Nil

\* C29: when f.set fails on the k-th bound field of a struct-to-struct
\* conversion, the conversion ends with that error and no validator has
\* run; the bound fields before k hold the converted source values, and
\* field k and the bound fields after it hold what they held at the start
\* (the zero string)
C29_FailedFieldStopsTheLoop ==
  (conv.mode = "struct" /\ conv.pc = "done"
   /\ conv.result.err = "ErrNilPointerRead") =>
    /\ conv.todo # {} /\ conv.src[Min(conv.todo)] = NilSrc
    /\ conv.result.field = NoField
    /\ conv.vlog = << >>
    /\ conv.written = conv.bound \ conv.todo
    /\ \A i \in conv.bound :
         /\ i < Min(conv.todo) => conv.dst[i] = conv.src[i]
         /\ i >= Min(conv.todo) => conv.dst[i] = "" /\ i \in conv.todo

\* the second field failed after the first was written with a non-empty
\* string; the first field's validators never ran
C29_Witness ==
  /\ conv.mode = "struct" /\ conv.pc = "done"
  /\ conv.result.err = "ErrNilPointerRead"
  /\ conv.todo = {2} /\ conv.bound = {1, 2}
  /\ conv.dst[1] = "ab" /\ conv.tags[1] = <<"copy_upper", "not_empty">>

\* ------------------------------------------- properties, part A (continued)
\* thread t returns from a getAssignFunc call whose synthesis failed
FailedReturn(t) ==
  /\ stack[t] # << >>
  /\ stack[t][Len(stack[t])].fn = "get" /\ stack[t][Len(stack[t])].pc = "done"
  /\ ret[t].err # "nil"
  /\ stack'[t] = Pop(stack[t])
PairOf(f) == <<f.d, f.s>>

\* C22 (as stated): when a getAssignFunc call whose synthesis failed
\* returns, the cache holds no entry for the pair
C22_NoEntryAfterFailure ==
  [][\A t \in Threads :
       FailedReturn(t) => PairOf(stack[t][Len(stack[t])]) \notin DOMAIN cache']_vars

\* C22 (amended): a call whose synthesis failed has removed its own
\* placeholder when it returns; an entry the cache holds for the pair at
\* that time was stored by a call of another thread that ran LoadOrStore
\* after the removal.  No placeholder stays in the cache once the synthesis
\* of the call that stored it has ended, so a call that finds no entry
\* synthesizes again.
C22_OwnPlaceholderRemoved ==
  /\ [][\A t \in Threads :
          FailedReturn(t) =>
            LET f == stack[t][Len(stack[t])] IN
            PairOf(f) \in DOMAIN cache' =>
              /\ cache'[PairOf(f)].by # f.call
              /\ cache'[PairOf(f)].by[1] # t
              /\ calls[f.call].err # "nil"]_vars
  /\ [](\A p \in DOMAIN cache :
          cache[p].k = "ph" =>
            /\ calls[cache[p].by].err = "nil" /\ calls[cache[p].by].wg = 1
            /\ \E t \in Threads : \E n \in GetFrames(t) :
                 /\ stack[t][n].call = cache[p].by
                 /\ stack[t][n].pc = "ret" /\ PairOf(stack[t][n]) = p)

\* a call's synthesis failed and the call has returned its error; the cache
\* holds another thread's placeholder for the pair, whose call is
\* synthesizing the pair again
C22_Witness ==
  \E t \in Threads : \E u \in Threads \ {t} : \E n \in GetFrames(u) :
    /\ stack[t] = << >> /\ ret[t].fn = "get" /\ ret[t].err # "nil"
    /\ stack[u][n].won /\ stack[u][n].pc = "ret"
    /\ PairOf(stack[u][n]) = <<ret[t].d, ret[t].s>>
    /\ Load(<<ret[t].d, ret[t].s>>) = Placeholder(stack[u][n].call, ret[t].d, ret[t].s)
    /\ \E c \in stack[u][n].overl : c[1] = t

\* the slice pairs whose element pair no rule of newAssignFunc applies to
FailingContainers ==
  {p \in Pairs : /\ Strategy(p[1], p[2]) = "makeAssignToSlice"
                 /\ <<Elem(p[1]), Elem(p[2])>> \in Impossible}

\* C23: getAssignFunc never returns, and the cache never holds, a
\* synthesized procedure for a slice pair whose element pair has no
\* strategy, whatever the other threads do
C23_ContainerFailsInEveryInterleaving ==
  /\ \A p \in DOMAIN cache : p \in FailingContainers => cache[p].k = "ph"
  /\ \A t \in Threads :
       (ret[t].fn = "get" /\ <<ret[t].d, ret[t].s>> \in FailingContainers)
         => ret[t].proc.k # "conv"

\* C24: a synthesized procedure, once stored in the cache under a pair,
\* stays the entry of that pair in every later step of every thread
C24_SynthesizedEntryStays ==
  [][\A p \in DOMAIN cache :
       cache[p].k \in {"conv", "simple"} =>
         p \in DOMAIN cache' /\ cache'[p] = cache[p]]_vars

\* a thread's later getAssignFunc call has been given the procedure that
\* another thread synthesized and stored, and the entry is still that one
C24_Witness ==
  \E t \in Threads : \E p \in DOMAIN cache :
    /\ cache[p].k = "conv"
    /\ ret[t].fn = "get" /\ <<ret[t].d, ret[t].s>> = p
    /\ ret[t].proc = cache[p] /\ cache[p].by[1] # t
    /\ stack[t] = << >>

\* ------------------------------------------- properties, part C (continued)
NegativeIntoUnsigned ==
  /\ num.pc = "done" /\ num.st \in SignedTypes /\ num.dt \in UnsignedTypes
  /\ num.sv < 0

\* C25 (as stated): Assign of a negative signed integer into an unsigned
\* destination fails and leaves the value wrapped modulo 2^width there
C25_NegativeWrittenWrapped ==
  NegativeIntoUnsigned =>
    /\ num.res = "fail"
    /\ Bits(num.dt) < 32 => num.dv = num.sv % 2^Bits(num.dt)

\* C25 (amended): it fails and the destination keeps the value it held;
\* the wrapped value is only what AsUint returns next to its false
C25_NegativeLeavesDestination ==
  NegativeIntoUnsigned =>
    /\ num.res = "fail"
    /\ num.dv = 1
    /\ num.f = "AsUint"
    /\ AsUint(num.st, num.sv) = [n |-> num.sv, ok |-> FALSE]

\* -1 of type int8 has been refused by a uint8 that still holds 1, not 255
C25_Witness ==
  /\ NegativeIntoUnsigned /\ num.st = "int8" /\ num.dt = "uint8"
  /\ num.sv = 0 - 1 /\ num.res = "fail" /\ num.dv = 1

\* ------------------------------------------- properties, part F (continued)
\* C26: a destination field tagged json "-" takes no part in map-to-struct
\* conversion: whatever its type the synthesis does not fail because of
\* it, and the field is never written
C26_MinusFieldTakesNoPart ==
  fb.mode = "map" =>
    /\ (\A i \in FieldIdx :
          \/ fb.df[i].json = <<"-">>
          \/ Strategy(fb.df[i].type, MapValueType) # "impossible")
         => fb.result.err # "ErrAssignImpossible"
    /\ \A j \in DOMAIN fb.wlog : fb.df[fb.wlog[j].out].json # <<"-">>

\* ==========================================================================
\* Part H: struct to map[string]any (makeAssignToMap, source of struct kind)
\* ==========================================================================
\* the fields a source struct can declare at position i: those of part F,
\* of type string or int
ToMapFieldsAt(i) ==
  {[name |-> f.name, json |-> f.json, type |-> t] :
     f \in SrcFieldsAt(i), t \in {"string", "int"}}

\* what the i-th source field holds
ToMapValue(f, i) == IF f.type = "int" THEN IntV(i) ELSE StrV(Upper[i])

\* assign.go:669-687: fieldsIn, the source field index under each name; a
\* field is left out only when its json tag starts with '-'
ToMapKept(f) == ~(f.json # << >> /\ Head(f.json) = "-")
ToMapFieldsIn(sf) ==
  LET in == {i \in DOMAIN sf : ToMapKept(sf[i])} IN
  [n \in {ResolvedName(sf[i]) : i \in in} |->
     Max({i \in in : ResolvedName(sf[i]) = n})]

\* f.set(dv, src.Field(f.in)), with set the simpleSet that getAssignFunc
\* gives for a destination of type any: reflect.Value.Set panics when its
\* source was obtained through an unexported field
ToMapSet(f, i) ==
  IF IsExported(f) THEN [res |-> "ok", v |-> ToMapValue(f, i)]
  ELSE [res |-> "panic", v |-> ToMapValue(f, i)]

InitToMap ==
  /\ cache = [p \in {} |-> NoEntry]
  /\ calls = [c \in {} |-> NoRet]
  /\ stack = [t \in Threads |-> << >>]
  /\ ret = [t \in Threads |-> NoRet]
  /\ th = [t \in Threads |-> IdleThread]
  /\ nops = 0
  /\ vlock = 0
  /\ crashed = FALSE
  /\ nilcall = FALSE
  /\ conv = NoConv /\ num = NoNum
  /\ sl = NoSl /\ ep = NoEp /\ fb = NoFb /\ bs = NoBs /\ vr = NoVr
  /\ \E sf \in [FieldIdx -> UNION {ToMapFieldsAt(i) : i \in FieldIdx}] :
       /\ \A i \in FieldIdx : sf[i] \in ToMapFieldsAt(i)
       /\ tm = [pc |-> "make", sf |-> sf, fieldsIn |-> << >>, todo |-> {},
                out |-> << >>, res |-> "none"]

\* assign.go:662-687: the procedure is built
ToMapSynth ==
  /\ tm.pc = "make"
  /\ tm' = [tm EXCEPT !.pc = "run", !.fieldsIn = ToMapFieldsIn(tm.sf),
                      !.todo = DOMAIN ToMapFieldsIn(tm.sf)]
  /\ UNCHANGED <<cacheVars, conv, num, sl, ep, fb, bs, vr>>

\* assign.go:689-696: dst.Set(MakeMap) and the next entry of fieldsIn, in
\* the iteration order of that map
ToMapEntry(name) ==
  /\ tm.pc = "run" /\ name \in tm.todo
  /\ LET i == tm.fieldsIn[name]
         r == ToMapSet(tm.sf[i], i)
     IN IF r.res = "panic"
        THEN tm' = [tm EXCEPT !.pc = "done", !.res = "panic"]
        ELSE tm' = [tm EXCEPT !.out = (name :> r.v) @@ @, !.todo = @ \ {name}]
  /\ UNCHANGED <<cacheVars, conv, num, sl, ep, fb, bs, vr>>

\* assign.go:697
ToMapReturn ==
  /\ tm.pc = "run" /\ tm.todo = {}
  /\ tm' = [tm EXCEPT !.pc = "done", !.res = "ok"]
  /\ UNCHANGED <<cacheVars, conv, num, sl, ep, fb, bs, vr>>

NextToMap ==
  ToMapSynth \/ (\E name \in {<<c>> : c \in UpperChars} \cup
                              {<<Lower[i]>> : i \in FieldIdx} : ToMapEntry(name))
  \/ ToMapReturn

SpecToMap == InitToMap /\ [][NextToMap]_vars

\* ------------------------------------------------------ properties, part H
\* C27: struct-to-map conversion ends without panic, and the map holds an
\* entry under the resolved name of every exported source field that is
\* not tagged json "-", and no other entry
C27_ExportedFieldsOnly ==
  tm.pc = "done" =>
    /\ tm.res = "ok"
    /\ DOMAIN tm.out =
         {ResolvedName(tm.sf[i]) :
            i \in {i \in FieldIdx : IsExported(tm.sf[i])
                                    /\ tm.sf[i].json # <<"-">>}}

\* ==========================================================================
\* Part I: the validator registry and its lock (validator.go:14-17)
\* ==========================================================================
\* vr.reg: the names in the validators map; vr.w: the goroutine holding
\* validatorsLk for writing (0: none); vr.r: the goroutines holding it for
\* reading; vr.pc, vr.name: where each goroutine is and the name it passed;
\* vr.found: what the last lookup of each goroutine returned; vr.last: the
\* function each goroutine last returned from; vr.n: the calls started;
\* vr.fatal: the runtime stopped the process
RegNames == {"minlength", "custom"}

InitReg ==
  /\ cache = [p \in {} |-> NoEntry]
  /\ calls = [c \in {} |-> NoRet]
  /\ stack = [t \in Threads |-> << >>]
  /\ ret = [t \in Threads |-> NoRet]
  /\ th = [t \in Threads |-> IdleThread]
  /\ nops = 0
  /\ vlock = 0
  /\ crashed = FALSE
  /\ nilcall = FALSE
  /\ conv = NoConv /\ num = NoNum
  /\ sl = NoSl /\ ep = NoEp /\ fb = NoFb /\ bs = NoBs /\ tm = NoTm
  /\ vr = [pc |-> [g \in Threads |-> "idle"], name |-> [g \in Threads |-> ""],
           found |-> [g \in Threads |-> "none"],
           last |-> [g \in Threads |-> "none"], reg |-> {"minlength"},
           w |-> 0, r |-> {}, n |-> 0, fatal |-> FALSE]

RegCanStart(g) == vr.pc[g] = "idle" /\ vr.n < MaxOps /\ ~vr.fatal

\* a map access of g overlaps the map write that another goroutine has
\* begun and not finished: a data race, which the runtime may detect
\* ("fatal error: concurrent map writes" / "concurrent map read and map
\* write") or not
RegRaced(g) == \E h \in Threads \ {g} : vr.pc[h] = "sva_writing"
RegFatal(g) == IF RegRaced(g) THEN BOOLEAN ELSE {FALSE}

\* validator.go:74: validatorsLk.Lock()
SvLock(g, name) ==
  /\ RegCanStart(g)
  /\ vr.w = 0 /\ vr.r = {}
  /\ vr' = [vr EXCEPT !.pc[g] = "sv_locked", !.name[g] = name, !.w = g,
                      !.n = @ + 1]
  /\ UNCHANGED <<cacheVars, conv, num, sl, ep, fb, bs, tm>>

\* validator.go:77: validators[validator] = ...
SvWrite(g) ==
  /\ vr.pc[g] = "sv_locked" /\ ~vr.fatal
  /\ \E f \in RegFatal(g) :
       vr' = [vr EXCEPT !.pc[g] = "sv_written", !.fatal = f,
                        !.reg = IF f THEN @ ELSE @ \cup {vr.name[g]}]
  /\ UNCHANGED <<cacheVars, conv, num, sl, ep, fb, bs, tm>>

\* validator.go:75: the deferred validatorsLk.Unlock()
SvUnlock(g) ==
  /\ vr.pc[g] = "sv_written" /\ ~vr.fatal
  /\ vr' = [vr EXCEPT !.pc[g] = "idle", !.w = 0, !.last[g] = "SetValidator"]
  /\ UNCHANGED <<cacheVars, conv, num, sl, ep, fb, bs, tm>>

\* validator.go:112-123: SetValidatorArgs reaches its map write; it has
\* taken no lock
SvaBegin(g, name) ==
  /\ RegCanStart(g)
  /\ \E f \in RegFatal(g) :
       vr' = [vr EXCEPT !.pc[g] = "sva_writing", !.name[g] = name,
                        !.n = @ + 1, !.fatal = f]
  /\ UNCHANGED <<cacheVars, conv, num, sl, ep, fb, bs, tm>>

\* validator.go:123: the map write of SetValidatorArgs is done
SvaEnd(g) ==
  /\ vr.pc[g] = "sva_writing" /\ ~vr.fatal
  /\ vr' = [vr EXCEPT !.pc[g] = "idle", !.reg = @ \cup {vr.name[g]},
                      !.last[g] = "SetValidatorArgs"]
  /\ UNCHANGED <<cacheVars, conv, num, sl, ep, fb, bs, tm>>

\* validator.go:135: validatorsLk.RLock()
GvRLock(g, name) ==
  /\ RegCanStart(g)
  /\ vr.w = 0
  /\ vr' = [vr EXCEPT !.pc[g] = "gv_rlocked", !.name[g] = name,
                      !.r = @ \cup {g}, !.n = @ + 1]
  /\ UNCHANGED <<cacheVars, conv, num, sl, ep, fb, bs, tm>>

\* validator.go:146: o, ok := validators[v]; a read that overlaps a write
\* returns either answer
GvRead(g) ==
  /\ vr.pc[g] = "gv_rlocked" /\ ~vr.fatal
  /\ \E f \in RegFatal(g) :
       \E ok \in (IF RegRaced(g) THEN BOOLEAN ELSE {vr.name[g] \in vr.reg}) :
         vr' = [vr EXCEPT !.pc[g] = "gv_read", !.fatal = f,
                          !.found[g] = IF f THEN @
                                       ELSE IF ok THEN "found"
                                       ELSE "validator not found"]
  /\ UNCHANGED <<cacheVars, conv, num, sl, ep, fb, bs, tm>>

\* validator.go:136: the deferred validatorsLk.RUnlock()
GvRUnlock(g) ==
  /\ vr.pc[g] = "gv_read" /\ ~vr.fatal
  /\ vr' = [vr EXCEPT !.pc[g] = "idle", !.r = @ \ {g},
                      !.last[g] = "getValidators"]
  /\ UNCHANGED <<cacheVars, conv, num, sl, ep, fb, bs, tm>>

NextReg ==
  \E g \in Threads :
    \/ \E name \in RegNames : SvLock(g, name)
    \/ SvWrite(g)
    \/ SvUnlock(g)
    \/ \E name \in RegNames : SvaBegin(g, name)
    \/ SvaEnd(g)
    \/ \E name \in RegNames : GvRLock(g, name)
    \/ GvRead(g)
    \/ GvRUnlock(g)

SpecReg == InitReg /\ [][NextReg]_vars

\* ------------------------------------------------------ properties, part I
\* C30: a goroutine that is writing the validators map holds validatorsLk
\* for writing, and no other goroutine is reading or writing the map then
C30_RegistryWritesHoldWriteLock ==
  \A g \in Threads :
    vr.pc[g] \in {"sv_locked", "sva_writing"} =>
      /\ vr.w = g /\ vr.r = {}
      /\ \A h \in Threads \ {g} :
           vr.pc[h] \notin {"sv_locked", "sva_writing", "gv_rlocked"}

====
